---- MODULE Spec2Model ----
(***************************************************************************)
(* State snapshot generator of the path database                           *)
(* (triedb/pathdb/generate.go).                                            *)
(*                                                                         *)
(* A hash is abstracted to an integer of the ordered hash space 0..MaxKey  *)
(* (accounts) or 0..MaxSlot (storage slots); byte-wise comparison of       *)
(* fixed-width hashes is comparison of these integers.  A progress marker  *)
(* is a sequence of hashes: <<>> (empty), <<a>> (one segment), <<a, s>>    *)
(* (two segments); the nil marker is Nil.                                  *)
(***************************************************************************)
EXTENDS Integers, Sequences, FiniteSets, TLC

\* ---------------------------------------------------------------- bounds
MaxKey == 2          \* account hashes are 0..MaxKey
MaxSlot == 1         \* storage slot hashes are 0..MaxSlot
MaxCalls == 3        \* run()/stop() calls the owner issues
MaxFaults == 1       \* store/trie failures the environment injects

\* The two range limits (128 and 1024 in the source) and the batch threshold
\* (ethdb.IdealBatchSize, counted here in batch operations) are bounds of the
\* model too: scaled down so that a segment is cut (diskMore) and a batch
\* fills within the key space above.
accountCheckRange == 2
storageCheckRange == 1
IdealBatchSize == 2

\* The arena's page size (1024 in the source) is scaled down in the same way,
\* so that a request overflows a page within a few calls.
arenaPageSize == 4
MaxAllocs == 4       \* NewBytes calls made on the arena

Keys == 0..MaxKey
Slots == 0..MaxSlot
NoKey == -1                      \* a nil []byte key / origin / marker part
Nil == <<NoKey>>                 \* the nil progress marker

Min(S) == CHOOSE x \in S : \A y \in S : x <= y
Max(S) == CHOOSE x \in S : \A y \in S : x >= y

RECURSIVE Asc(_)
Asc(S) == IF S = {} THEN <<>> ELSE <<Min(S)>> \o Asc(S \ {Min(S)})

\* len(marker): nil and empty both have length 0
MLen(m) == IF m = Nil THEN 0 ELSE Len(m)
\* the bytes of a marker: nil reads as the empty string
MBytes(m) == IF m = Nil THEN <<>> ELSE m

\* bytes.Compare(a, b) < 0 on sequences of hashes
LexLess(a, b) ==
    \/ /\ Len(a) < Len(b)
       /\ \A i \in 1..Len(a) : a[i] = b[i]
    \/ \E i \in 1..Len(a) :
          /\ i <= Len(b)
          /\ a[i] < b[i]
          /\ \A j \in 1..(i - 1) : a[j] = b[j]
LexLeq(a, b) == a = b \/ LexLess(a, b)

\* --------------------------------------------------------- account values
\* A storage root identifies the storage trie's content; root r holds the
\* slots whose bit is set in r, root 0 is the empty root.
RECURSIVE Pow2(_)
Pow2(n) == IF n = 0 THEN 1 ELSE 2 * Pow2(n - 1)
Roots == 0..(Pow2(MaxSlot + 1) - 1)
EmptyRootHash == 0
SlotsOfRoot(r) == {s \in Slots : (r \div Pow2(s)) % 2 = 1}
TrieSlotVal == 1                 \* the value every trie slot holds
SlotVals == 1..2                 \* values a snapshot storage row may hold

\* account values: the trie holds the full encoding, the snapshot the slim
\* one; "bad" is a snapshot value the slim decoder rejects.
FullAcc(r) == [k |-> "full", root |-> r]
SlimAcc(r) == [k |-> "slim", root |-> r]
BadAcc == [k |-> "bad", root |-> 0]
NoAcc == [k |-> "none", root |-> 0]

\* types.FullAccountRLP: [ok, val]
FullAccountRLP(v) ==
    IF v.k = "slim" THEN [ok |-> TRUE, val |-> FullAcc(v.root)]
    ELSE [ok |-> FALSE, val |-> v]
\* types.SlimAccountRLP of a decoded full account
SlimAccountRLP(v) == SlimAcc(v.root)

\* (variant: the key comes back unchanged)
increaseKeySame(key, top) == key

\* increaseKey on a key of several bytes, each in 0..top, as the code
\* computes it: from the last byte backwards, increment the byte and return
\* unless it wrapped to zero; nil when every byte wrapped (or there is none)
RECURSIVE increaseKeyBytes(_, _)
increaseKeyBytes(key, top) ==
    IF key = <<>> THEN Nil
    ELSE LET i == Len(key)
             b == (key[i] + 1) % (top + 1)
         IN  IF b # 0 THEN [key EXCEPT ![i] = b]
             ELSE LET front == increaseKeyBytes(SubSeq(key, 1, i - 1), top)
                  IN  IF front = Nil THEN Nil ELSE Append(front, b)

\* increaseKey: the successor hash, nil on overflow (and for a nil key)
increaseKey(key, top) ==
    IF key = NoKey THEN NoKey ELSE IF key = top THEN NoKey ELSE key + 1

\* splitMarker: the account part of a marker (nil when the marker is empty)
splitMarker(marker) == IF MLen(marker) > 0 THEN marker[1] ELSE NoKey

\* ------------------------------------------------------------------ state
VARIABLES
    trie,       \* the account trie at the target root: key -> storage root, NoKey when absent
    dbAcc,      \* committed account snapshot rows: key -> slim value, NoAcc when absent
    dbSto,      \* committed storage snapshot rows: owner -> slot -> value, 0 when absent
    dbJrn,      \* committed generator journal record
    dbRoot,     \* whether the snapshot root record is committed
    noBuild,    \* generator.noBuild
    running,    \* generator.running
    progress,   \* generator.progress
    done,       \* whether generator.done is closed
    stats,      \* generatorStats counters
    owner,      \* the owner's thread: position inside run()/stop(), calls made
    chClosed,   \* whether the reply channel of the outstanding stop() is closed
    w,          \* the worker goroutine (generate and everything below it)
    ctx,        \* the worker's generatorContext: batch and the two iterators
    faults,     \* failures injected so far
    cause,      \* the error that made the worker leave the loop, "" if none
    arena       \* an ArenaNodeAllocator of the trie package (byte pages only)

vars == <<trie, dbAcc, dbSto, dbJrn, dbRoot, noBuild, running, progress, done,
          stats, owner, chClosed, w, ctx, faults, cause, arena>>

\* ------------------------------------------------------- the trie's leaves
\* leaves of the account trie: key -> full account value
AccLeaves == [k \in {x \in Keys : trie[x] # NoKey} |-> FullAcc(trie[k])]
\* leaves of the storage trie with root r: slot -> value
StoLeaves(r) == [s \in SlotsOfRoot(r) |-> TrieSlotVal]

\* ------------------------------------------------- snapshot iterator pair
\* A holdable iterator is the store's content when it was opened (view) and
\* the lowest key its next advance may yield (pos); Hold leaves pos on the
\* row just read.  Storage rows are ordered by owner, then slot.
NSlots == MaxSlot + 1
StoIdx(o, s) == o * NSlots + s
StoEnd == (MaxKey + 1) * NSlots
OwnerOf(i) == i \div NSlots
SlotOf(i) == i % NSlots
EmptyAccView == [k \in Keys |-> NoAcc]
EmptyStoView == [k \in Keys |-> [s \in Slots |-> 0]]

AccRows(it) == {k \in Keys : k >= it.pos /\ it.view[k].k # "none"}
StoRows(it) == {i \in 0..(StoEnd - 1) :
                  i >= it.pos /\ it.view[OwnerOf(i)][SlotOf(i)] # 0}

\* position of a marker in the storage namespace
StoPosOf(marker) ==
    IF MLen(marker) = 0 THEN 0
    ELSE IF MLen(marker) = 1 THEN StoIdx(marker[1], 0)
    ELSE StoIdx(marker[1], marker[2])

\* generatorContext.openIterator for both kinds
openIterators(marker) ==
    [acc |-> [view |-> dbAcc,
              pos |-> IF splitMarker(marker) = NoKey THEN 0 ELSE splitMarker(marker)],
     sto |-> [view |-> dbSto, pos |-> StoPosOf(marker)]]

\* generatorContext.reopenIterator: advance once to learn the position, then
\* reopen there on the store's current content; an exhausted iterator is
\* replaced by an empty one for good.
reopenAcc(it, acc) ==
    IF AccRows(it) = {} THEN [view |-> EmptyAccView, pos |-> MaxKey + 1]
    ELSE [view |-> acc, pos |-> Min(AccRows(it))]
reopenSto(it, sto) ==
    IF StoRows(it) = {} THEN [view |-> EmptyStoView, pos |-> StoEnd]
    ELSE [view |-> sto, pos |-> Min(StoRows(it))]

\* ------------------------------------------------------------ range prover
\* What proveRange reads from the iterator: the rows it collects, whether it
\* was cut by max, and whether the first row read lies below prefix||origin.
\* yielded: the keys (already stripped of the prefix) of the rows inside the
\* prefix that the iterator yields, in the order it yields them.
\* (variant: the row read after the max-th is collected instead of held)
CollectPastMax(yielded, max) ==
    LET ks == Asc(yielded)
    IN  [keys |-> IF Len(ks) > max THEN SubSeq(ks, 1, max + 1) ELSE ks,
         diskMore |-> Len(ks) > max]

Collect(yielded, max) ==
    LET ks == Asc(yielded)
    IN  [keys |-> IF Len(ks) > max THEN SubSeq(ks, 1, max) ELSE ks,
         diskMore |-> Len(ks) > max]

SeqSet(s) == {s[i] : i \in 1..Len(s)}
LastOf(keys) == IF Len(keys) > 0 THEN keys[Len(keys)] ELSE NoKey

\* The verdict of the prover on the collected rows.  kv: collected key ->
\* value (after the value transform); leaf: the trie's leaves.
\*  - origin nil and not cut by max: the stack trie of the rows has the
\*    expected root iff the rows are exactly the trie's leaves;
\*  - otherwise the range proof from origin to the last key verifies iff the
\*    rows are exactly the leaves in that range (no leaf at or after origin
\*    when no row was collected); it also tells whether leaves follow.
ProofOf(keys, diskMore, origin, kv, leaf) ==
    LET fast == origin = NoKey /\ ~diskMore
        from == IF origin = NoKey THEN 0 ELSE origin
        last == LastOf(keys)
        window == IF fast THEN DOMAIN leaf
                  ELSE IF last = NoKey THEN {j \in DOMAIN leaf : j >= from}
                  ELSE {j \in DOMAIN leaf : j >= from /\ j <= last}
        same == /\ window = SeqSet(keys)
                /\ \A k \in window : kv[k] = leaf[k]
    IN  [keys |-> keys,
         diskMore |-> diskMore,
         fast |-> fast,
         valid |-> same,
         trieMore |-> ~fast /\ same /\ last # NoKey /\ \E j \in DOMAIN leaf : j > last]

\* ------------------------------------------------------- segment reconciler
\* One element handed to the on-state callback.  first: the element is the
\* first one issued after an advance of the trie iterator (or of the tail
\* sweep), the only places where a trie iteration error can surface.
Event(key, val, write, del, first) ==
    [key |-> key, val |-> val, write |-> write, del |-> del, first |-> first]

\* (variant: the rows of a valid segment are handed over as written)
RECURSIVE ForEachRewritten(_, _)
ForEachRewritten(keys, kv) ==
    IF keys = <<>> THEN <<>>
    ELSE <<Event(Head(keys), kv[Head(keys)], TRUE, FALSE, TRUE)>>
         \o ForEachRewritten(Tail(keys), kv)

\* proofResult.forEach on a valid segment: every row, untouched
RECURSIVE ForEach(_, _)
ForEach(keys, kv) ==
    IF keys = <<>> THEN <<>>
    ELSE <<Event(Head(keys), kv[Head(keys)], FALSE, FALSE, TRUE)>>
         \o ForEach(Tail(keys), kv)

\* (variant: the snapshot key equal to the trie key stays at the head)
RECURSIVE InnerLoopKeepsHead(_, _, _)
InnerLoopKeepsHead(kvkeys, t, dels) ==
    IF kvkeys = <<>> THEN [dels |-> dels, rest |-> <<>>, hit |-> FALSE]
    ELSE IF Head(kvkeys) < t
         THEN InnerLoopKeepsHead(Tail(kvkeys), t, Append(dels, Head(kvkeys)))
    ELSE IF Head(kvkeys) = t THEN [dels |-> dels, rest |-> kvkeys, hit |-> TRUE]
    ELSE [dels |-> dels, rest |-> kvkeys, hit |-> FALSE]

\* the inner loop over the snapshot head for one trie key t: delete the
\* snapshot keys below t, consume the one equal to t
RECURSIVE InnerLoop(_, _, _)
InnerLoop(kvkeys, t, dels) ==
    IF kvkeys = <<>> THEN [dels |-> dels, rest |-> <<>>, hit |-> FALSE]
    ELSE IF Head(kvkeys) < t THEN InnerLoop(Tail(kvkeys), t, Append(dels, Head(kvkeys)))
    ELSE IF Head(kvkeys) = t THEN [dels |-> dels, rest |-> Tail(kvkeys), hit |-> TRUE]
    ELSE [dels |-> dels, rest |-> kvkeys, hit |-> FALSE]

\* (variant: snapshot keys the trie does not hold are left alone)
DeletesNone(keys, nilVal, first) == <<>>

RECURSIVE Deletes(_, _, _)
Deletes(keys, nilVal, first) ==
    IF keys = <<>> THEN <<>>
    ELSE <<Event(Head(keys), nilVal, FALSE, TRUE, first)>>
         \o Deletes(Tail(keys), nilVal, FALSE)

\* (variant: the trie iterator is walked to its end in every segment)
RECURSIVE MergeLoopUnbounded(_, _, _, _, _, _, _)
MergeLoopUnbounded(tkeys, kvkeys, last, kv, leaf, nilVal, out) ==
    IF tkeys = <<>> THEN [ev |-> out, kvkeys |-> kvkeys, trieMore |-> FALSE]
    ELSE LET t == Head(tkeys)
             in == InnerLoop(kvkeys, t, <<>>)
             write == IF in.hit THEN kv[t] # leaf[t] ELSE TRUE
             dels == Deletes(in.dels, nilVal, TRUE)
         IN  MergeLoopUnbounded(Tail(tkeys), in.rest, last, kv, leaf, nilVal,
                                out \o dels
                                    \o <<Event(t, leaf[t], write, FALSE, dels = <<>>)>>)

\* the loop over the trie iterator: stop past the proven window, else issue
\* the deletes below the trie key and then the trie key itself
RECURSIVE MergeLoop(_, _, _, _, _, _, _)
MergeLoop(tkeys, kvkeys, last, kv, leaf, nilVal, out) ==
    IF tkeys = <<>> THEN [ev |-> out, kvkeys |-> kvkeys, trieMore |-> FALSE]
    ELSE LET t == Head(tkeys)
         IN  IF last # NoKey /\ t > last
             THEN [ev |-> out, kvkeys |-> kvkeys, trieMore |-> TRUE]
             ELSE LET in == InnerLoop(kvkeys, t, <<>>)
                      write == IF in.hit THEN kv[t] # leaf[t] ELSE TRUE
                      dels == Deletes(in.dels, nilVal, TRUE)
                  IN  MergeLoop(Tail(tkeys), in.rest, last, kv, leaf, nilVal,
                                out \o dels
                                    \o <<Event(t, leaf[t], write, FALSE, dels = <<>>)>>)

\* generateRange once the prover has answered: the elements the callback
\* will be handed, in order, and the segment's result (exhausted, last)
generateRange(pr, origin, kv, leaf, nilVal) ==
    LET last == LastOf(pr.keys)
    IN  IF pr.valid
        THEN [events |-> ForEach(pr.keys, kv),
              exhausted |-> ~pr.diskMore /\ ~pr.trieMore,
              last |-> last,
              invalid |-> FALSE,
              tail |-> 0]
        ELSE LET from == IF origin = NoKey THEN 0 ELSE origin
                 tkeys == Asc({j \in DOMAIN leaf : j >= from})
                 m == MergeLoop(tkeys, pr.keys, last, kv, leaf, nilVal, <<>>)
             IN  [events |-> m.ev \o Deletes(m.kvkeys, nilVal, TRUE),
                  exhausted |-> ~m.trieMore /\ ~pr.diskMore,
                  last |-> last,
                  invalid |-> TRUE,
                  tail |-> Len(m.kvkeys)]

\* ------------------------------------------------------------------- batch
NoOp == [k |-> "noop", root |-> 0]
DelOp == [k |-> "del", root |-> 0]
EmptyBatch == [acc |-> [k \in Keys |-> NoOp],
               sto |-> [k \in Keys |-> [s \in Slots |-> -1]],
               size |-> 0]

PutAcc(b, key, val) == [b EXCEPT !.acc[key] = val, !.size = @ + 1]
DelAcc(b, key) == [b EXCEPT !.acc[key] = DelOp, !.size = @ + 1]
\* (variant: a storage write is counted in the batch but carries no row)
PutStoDropped(b, o, s, val) == [b EXCEPT !.size = @ + 1]
PutSto(b, o, s, val) == [b EXCEPT !.sto[o][s] = val, !.size = @ + 1]
DelSto(b, o, s) == [b EXCEPT !.sto[o][s] = 0, !.size = @ + 1]

RECURSIVE DelRows(_, _)
DelRows(b, rows) ==
    IF rows = {} THEN b
    ELSE LET i == Min(rows)
         IN  DelRows(DelSto(b, OwnerOf(i), SlotOf(i)), rows \ {i})

\* the store after an atomic write of the batch
ApplyAcc(acc, b) ==
    [k \in Keys |-> IF b.acc[k].k = "noop" THEN acc[k]
                    ELSE IF b.acc[k].k = "del" THEN NoAcc
                    ELSE b.acc[k]]
ApplySto(sto, b) ==
    [k \in Keys |-> [s \in Slots |-> IF b.sto[k][s] = -1 THEN sto[k][s]
                                     ELSE b.sto[k][s]]]

\* journalProgress: the generator record for a marker
journalProgress(marker, st) ==
    [set |-> TRUE, done |-> marker = Nil, marker |-> marker,
     accounts |-> st.accounts, slots |-> st.slots]
NoJournal == [set |-> FALSE, done |-> FALSE, marker |-> <<>>,
              accounts |-> 0, slots |-> 0]

\* ------------------------------------------------ dangling-storage reaper
\* Each of the three drives the storage iterator forward, deleting what it
\* passes, and leaves it on the first row it keeps.
ReapRows(c, rows) ==
    [c EXCEPT !.batch = DelRows(@, rows),
              !.sto.pos = IF rows = {} THEN @ ELSE Max(rows) + 1]
RowsBefore(c, account) == {i \in StoRows(c.sto) : OwnerOf(i) < account}
RowsAt(c, account) == {i \in StoRows(c.sto) : OwnerOf(i) = account}
removeStorageBefore(c, account) == ReapRows(c, RowsBefore(c, account))
removeStorageAt(c, account) == ReapRows(c, RowsAt(c, account))
removeRemainingStorage(c) == ReapRows(c, StoRows(c.sto))

\* ------------------------------------------------------------------ worker
\* The worker's position (pc) and the locals of generate, generateAccounts,
\* onAccount, generateStorages and checkAndFlush that live across steps:
\*   accMarker         generateAccounts' accMarker
\*   aOrigin .. aTail  the account segment: origin, elements still to hand to
\*                     onAccount, last, exhausted, invalid, tail-sweep length
\*   acct, aroot       the account onAccount is processing and its root
\*   sOrigin .. sTail  the same for the storage segment of acct
\*   cur, abort, ret   checkAndFlush: marker, reply channel taken, caller
\*   from              the marker the worker's context was created with
\*   replay            callbacks invoked so far for keys strictly below from
NoWorker ==
    [pc |-> "none", from |-> <<>>, replay |-> 0, accMarker |-> NoKey,
     aOrigin |-> NoKey, aQ |-> <<>>, aLast |-> NoKey, aExh |-> FALSE,
     aInv |-> FALSE, aTail |-> 0,
     acct |-> NoKey, aroot |-> 0,
     sOrigin |-> NoKey, sQ |-> <<>>, sLast |-> NoKey, sExh |-> FALSE,
     sInv |-> FALSE, sTail |-> 0,
     cur |-> <<>>, abort |-> FALSE, ret |-> ""]

\* newGeneratorContext: an empty batch and both iterators at the marker
newGeneratorContext(marker) ==
    [batch |-> EmptyBatch,
     acc |-> openIterators(marker).acc,
     sto |-> openIterators(marker).sto]

Alive == w.pc # "panic"

\* (variant: a row the transform rejects loses its value)
ConvertedOrEmpty(v) == IF FullAccountRLP(v).ok THEN FullAccountRLP(v).val ELSE NoAcc

\* (variant: the prover compares the slim rows as they are stored)
ConvertedRaw(v) == v

\* the value transform of the account prover: a row the transform rejects
\* keeps its raw value
Converted(v) == IF FullAccountRLP(v).ok THEN FullAccountRLP(v).val ELSE v

\* --- proveRange on the account namespace, at the current iterator position
AccYield == AccRows(ctx.acc)
AccBadPos == AccYield # {} /\ Min(AccYield) < w.aOrigin
AccCollect == Collect(AccYield, accountCheckRange)
AccKv == [k \in SeqSet(AccCollect.keys) |-> Converted(ctx.acc.view[k])]
AccProof == ProofOf(AccCollect.keys, AccCollect.diskMore, w.aOrigin, AccKv, AccLeaves)

\* --- proveRange on the storage namespace of w.acct
StoMin == StoIdx(w.acct, IF w.sOrigin = NoKey THEN 0 ELSE w.sOrigin)
StoBadPos == StoRows(ctx.sto) # {} /\ Min(StoRows(ctx.sto)) < StoMin
StoYield == {SlotOf(i) : i \in {j \in StoRows(ctx.sto) : OwnerOf(j) = w.acct}}
StoCollect == Collect(StoYield, storageCheckRange)
StoKv == [s \in SeqSet(StoCollect.keys) |-> ctx.sto.view[w.acct][s]]
StoProof == ProofOf(StoCollect.keys, StoCollect.diskMore, w.sOrigin, StoKv, StoLeaves(w.aroot))

\* (variant: a batch that just reaches the threshold is flushed)
NeedFlushAtThreshold(size, abort) == size >= IdealBatchSize \/ abort

\* the flush condition of checkAndFlush
NeedFlush(size, abort) == size > IdealBatchSize \/ abort

\* (variant: an abort request is acknowledged without flushing)
checkAndFlushNoCommit(w1, c1, marker, ret) ==
    LET got == owner.pc = "send"
    IN  /\ owner' = IF got THEN [owner EXCEPT !.pc = "wait"] ELSE owner
        /\ w' = IF got
                THEN [w1 EXCEPT !.pc = "closeAbort", !.cur = marker,
                                !.abort = TRUE, !.ret = ret]
                ELSE IF NeedFlush(c1.batch.size, FALSE)
                THEN [w1 EXCEPT !.pc = "commit", !.cur = marker,
                                !.abort = FALSE, !.ret = ret]
                ELSE [w1 EXCEPT !.pc = ret]

\* checkAndFlush up to the decision: the non-blocking receive on the abort
\* rendezvous succeeds iff a stop() is blocked sending
checkAndFlush(w1, c1, marker, ret) ==
    LET got == owner.pc = "send"
    IN  /\ owner' = IF got THEN [owner EXCEPT !.pc = "wait"] ELSE owner
        /\ w' = IF NeedFlush(c1.batch.size, got)
                THEN [w1 EXCEPT !.pc = "commit", !.cur = marker,
                                !.abort = got, !.ret = ret]
                ELSE [w1 EXCEPT !.pc = ret]

\* (variant: a resumed run starts past the interrupted account)
BootstrapPastMarker ==
    /\ Alive /\ w.pc = "start"
    /\ IF MLen(progress) = 0
       THEN /\ dbRoot' = TRUE
            /\ dbJrn' = journalProgress(progress, stats)
       ELSE UNCHANGED <<dbRoot, dbJrn>>
    /\ w' = [w EXCEPT !.pc = "accRange",
                      !.accMarker = NoKey,
                      !.aOrigin = IF splitMarker(progress) = NoKey THEN NoKey
                                  ELSE Min({splitMarker(progress) + 1, MaxKey})]
    /\ UNCHANGED <<arena, trie, dbAcc, dbSto, noBuild, running, progress, done, stats,
                   owner, chClosed, ctx, faults, cause>>

\* (variant: a resumed run reconciles from the first account again)
BootstrapFromNil ==
    /\ Alive /\ w.pc = "start"
    /\ IF MLen(progress) = 0
       THEN /\ dbRoot' = TRUE
            /\ dbJrn' = journalProgress(progress, stats)
       ELSE UNCHANGED <<dbRoot, dbJrn>>
    /\ w' = [w EXCEPT !.pc = "accRange",
                      !.accMarker = splitMarker(progress),
                      !.aOrigin = NoKey]
    /\ UNCHANGED <<arena, trie, dbAcc, dbSto, noBuild, running, progress, done, stats,
                   owner, chClosed, ctx, faults, cause>>

\* generate: persist the initial marker and the snapshot root when the
\* progress is empty, then enter generateAccounts
Bootstrap ==
    /\ Alive /\ w.pc = "start"
    /\ IF MLen(progress) = 0
       THEN /\ dbRoot' = TRUE
            /\ dbJrn' = journalProgress(progress, stats)
       ELSE UNCHANGED <<dbRoot, dbJrn>>
    /\ w' = [w EXCEPT !.pc = "accRange",
                      !.accMarker = splitMarker(progress),
                      !.aOrigin = splitMarker(progress)]
    /\ UNCHANGED <<arena, trie, dbAcc, dbSto, noBuild, running, progress, done, stats,
                   owner, chClosed, ctx, faults, cause>>

\* generateRange on the account namespace: prove, then reconcile
AccRange ==
    /\ Alive /\ w.pc = "accRange"
    /\ IF AccBadPos
       THEN /\ w' = [w EXCEPT !.pc = "errWait"]
            /\ cause' = "badpos"
            /\ UNCHANGED ctx
       ELSE LET gr == generateRange(AccProof, w.aOrigin, AccKv, AccLeaves, NoAcc)
            IN  /\ w' = [w EXCEPT !.pc = "accCb", !.aQ = gr.events,
                                  !.aLast = gr.last, !.aExh = gr.exhausted,
                                  !.aInv = gr.invalid, !.aTail = gr.tail]
                /\ ctx' = [ctx EXCEPT !.acc.pos =
                              IF gr.last = NoKey THEN @ ELSE gr.last + 1]
                /\ UNCHANGED cause
    /\ UNCHANGED <<arena, trie, dbAcc, dbSto, dbJrn, dbRoot, noBuild, running, progress,
                   done, stats, owner, chClosed, faults>>

\* (variant: the account checkpoint always journals the account key alone)
onAccountMarkerPlain(key, inProgress) == <<key>>

\* whether an account key, or a storage key owner||slot, lies strictly below
\* the position a marker names (its account part, or its slot part within
\* that account)
AccBelow(key, marker) == MLen(marker) > 0 /\ key < marker[1]
StoBelow(o, sl, marker) ==
    /\ MLen(marker) > 0
    /\ \/ o < marker[1]
       \/ o = marker[1] /\ MLen(marker) > 1 /\ sl < marker[2]
Replayed(n, below) == IF below THEN n + 1 ELSE n

\* onAccount: the marker of the account's checkpoint; the two-segment
\* marker is kept while the interrupted account is being resumed
onAccountMarker(key, inProgress) ==
    IF inProgress /\ MLen(progress) > 1 THEN progress ELSE <<key>>

\* (variant: the account in progress at the interruption is written and
\* counted again)
OnAccountCountsResumed ==
    /\ Alive /\ w.pc = "accCb" /\ w.aQ # <<>>
    /\ LET e == Head(w.aQ)
           n == Cardinality(RowsBefore(ctx, e.key))
           c1 == removeStorageBefore(ctx, e.key)
           inProgress == w.accMarker # NoKey /\ e.key = w.accMarker
       IN  IF e.del
           THEN /\ ctx' = removeStorageAt([c1 EXCEPT !.batch = DelAcc(@, e.key)], e.key)
                /\ stats' = [stats EXCEPT !.dangling = @ + n]
                /\ w' = [w EXCEPT !.aQ = Tail(@),
                                  !.replay = Replayed(@, AccBelow(e.key, w.from))]
                /\ UNCHANGED owner
           ELSE LET c2 == IF e.write
                          THEN [c1 EXCEPT !.batch = PutAcc(@, e.key, SlimAccountRLP(e.val))]
                          ELSE c1
                    marker == onAccountMarker(e.key, inProgress)
                    w1 == [w EXCEPT !.aQ = Tail(@), !.acct = e.key,
                                    !.aroot = e.val.root,
                                    !.replay = Replayed(@, AccBelow(e.key, w.from))]
                IN  /\ ctx' = c2
                    /\ stats' = [stats EXCEPT
                                    !.dangling = @ + n,
                                    !.accounts = @ + 1]
                    /\ checkAndFlush(w1, c2, marker, "accPost")
    /\ UNCHANGED <<arena, trie, dbAcc, dbSto, dbJrn, dbRoot, noBuild, running, progress,
                   done, chClosed, faults, cause>>

\* onAccount up to and including its checkAndFlush
OnAccount ==
    /\ Alive /\ w.pc = "accCb" /\ w.aQ # <<>>
    /\ LET e == Head(w.aQ)
           n == Cardinality(RowsBefore(ctx, e.key))
           c1 == removeStorageBefore(ctx, e.key)
           inProgress == w.accMarker # NoKey /\ e.key = w.accMarker
       IN  IF e.del
           THEN /\ ctx' = removeStorageAt([c1 EXCEPT !.batch = DelAcc(@, e.key)], e.key)
                /\ stats' = [stats EXCEPT !.dangling = @ + n]
                /\ w' = [w EXCEPT !.aQ = Tail(@),
                                  !.replay = Replayed(@, AccBelow(e.key, w.from))]
                /\ UNCHANGED owner
           ELSE LET c2 == IF ~inProgress /\ e.write
                          THEN [c1 EXCEPT !.batch = PutAcc(@, e.key, SlimAccountRLP(e.val))]
                          ELSE c1
                    marker == onAccountMarker(e.key, inProgress)
                    w1 == [w EXCEPT !.aQ = Tail(@), !.acct = e.key,
                                    !.aroot = e.val.root,
                                    !.replay = Replayed(@, AccBelow(e.key, w.from))]
                IN  /\ ctx' = c2
                    /\ stats' = [stats EXCEPT
                                    !.dangling = @ + n,
                                    !.accounts = IF inProgress THEN @ ELSE @ + 1]
                    /\ checkAndFlush(w1, c2, marker, "accPost")
    /\ UNCHANGED <<arena, trie, dbAcc, dbSto, dbJrn, dbRoot, noBuild, running, progress,
                   done, chClosed, faults, cause>>

\* (variant: the storage pass of a resumed account starts at its first slot)
AccPostFromStart ==
    /\ Alive /\ w.pc = "accPost"
    /\ IF w.aroot = EmptyRootHash
       THEN /\ ctx' = removeStorageAt(ctx, w.acct)
            /\ w' = [w EXCEPT !.pc = "accCb", !.accMarker = NoKey]
       ELSE /\ w' = [w EXCEPT !.pc = "stoRange", !.sOrigin = NoKey]
            /\ UNCHANGED ctx
    /\ UNCHANGED <<arena, trie, dbAcc, dbSto, dbJrn, dbRoot, noBuild, running, progress,
                   done, stats, owner, chClosed, faults, cause>>

\* (variant: the storage dropped for a non-contract counts as dangling)
AccPostCounted ==
    /\ Alive /\ w.pc = "accPost"
    /\ IF w.aroot = EmptyRootHash
       THEN /\ ctx' = removeStorageAt(ctx, w.acct)
            /\ stats' = [stats EXCEPT !.dangling = @ + Cardinality(RowsAt(ctx, w.acct))]
            /\ w' = [w EXCEPT !.pc = "accCb", !.accMarker = NoKey]
       ELSE LET storeMarker ==
                    IF w.accMarker # NoKey /\ w.acct = w.accMarker /\ MLen(progress) > 1
                    THEN progress[2] ELSE NoKey
            IN  /\ w' = [w EXCEPT !.pc = "stoRange", !.sOrigin = storeMarker]
                /\ UNCHANGED <<ctx, stats>>
    /\ UNCHANGED <<arena, trie, dbAcc, dbSto, dbJrn, dbRoot, noBuild, running, progress,
                   done, owner, chClosed, faults, cause>>

\* onAccount after its checkAndFlush: drop the storage of a non-contract,
\* or enter generateStorages
AccPost ==
    /\ Alive /\ w.pc = "accPost"
    /\ IF w.aroot = EmptyRootHash
       THEN /\ ctx' = removeStorageAt(ctx, w.acct)
            /\ w' = [w EXCEPT !.pc = "accCb", !.accMarker = NoKey]
       ELSE LET storeMarker ==
                    IF w.accMarker # NoKey /\ w.acct = w.accMarker /\ MLen(progress) > 1
                    THEN progress[2] ELSE NoKey
            IN  /\ w' = [w EXCEPT !.pc = "stoRange", !.sOrigin = storeMarker]
                /\ UNCHANGED ctx
    /\ UNCHANGED <<arena, trie, dbAcc, dbSto, dbJrn, dbRoot, noBuild, running, progress,
                   done, stats, owner, chClosed, faults, cause>>

\* generateRange on the storage namespace of the account
StoRange ==
    /\ Alive /\ w.pc = "stoRange"
    /\ IF StoBadPos
       THEN /\ w' = [w EXCEPT !.pc = "errWait"]
            /\ cause' = "badpos"
            /\ UNCHANGED ctx
       ELSE LET gr == generateRange(StoProof, w.sOrigin, StoKv, StoLeaves(w.aroot), 0)
            IN  /\ w' = [w EXCEPT !.pc = "stoCb", !.sQ = gr.events,
                                  !.sLast = gr.last, !.sExh = gr.exhausted,
                                  !.sInv = gr.invalid, !.sTail = gr.tail]
                /\ ctx' = [ctx EXCEPT !.sto.pos =
                              IF gr.last = NoKey THEN @ ELSE StoIdx(w.acct, gr.last) + 1]
                /\ UNCHANGED cause
    /\ UNCHANGED <<arena, trie, dbAcc, dbSto, dbJrn, dbRoot, noBuild, running, progress,
                   done, stats, owner, chClosed, faults>>

\* (variant: a deleted slot passes through checkAndFlush as well)
OnStorageDeleteFlushes ==
    /\ Alive /\ w.pc = "stoCb" /\ w.sQ # <<>>
    /\ LET e == Head(w.sQ)
           w1 == [w EXCEPT !.sQ = Tail(@),
                           !.replay = Replayed(@, StoBelow(w.acct, e.key, w.from))]
           c1 == IF e.del THEN [ctx EXCEPT !.batch = DelSto(@, w.acct, e.key)]
                 ELSE IF e.write
                 THEN [ctx EXCEPT !.batch = PutSto(@, w.acct, e.key, e.val)]
                 ELSE ctx
       IN  /\ ctx' = c1
           /\ stats' = IF e.del THEN stats ELSE [stats EXCEPT !.slots = @ + 1]
           /\ checkAndFlush(w1, c1, <<w.acct, e.key>>, "stoCb")
    /\ UNCHANGED <<arena, trie, dbAcc, dbSto, dbJrn, dbRoot, noBuild, running, progress,
                   done, chClosed, faults, cause>>

\* onStorage
OnStorage ==
    /\ Alive /\ w.pc = "stoCb" /\ w.sQ # <<>>
    /\ LET e == Head(w.sQ)
           w1 == [w EXCEPT !.sQ = Tail(@),
                           !.replay = Replayed(@, StoBelow(w.acct, e.key, w.from))]
       IN  IF e.del
           THEN /\ ctx' = [ctx EXCEPT !.batch = DelSto(@, w.acct, e.key)]
                /\ w' = w1
                /\ UNCHANGED <<stats, owner>>
           ELSE LET c1 == IF e.write
                          THEN [ctx EXCEPT !.batch = PutSto(@, w.acct, e.key, e.val)]
                          ELSE ctx
                IN  /\ ctx' = c1
                    /\ stats' = [stats EXCEPT !.slots = @ + 1]
                    /\ checkAndFlush(w1, c1, <<w.acct, e.key>>, "stoCb")
    /\ UNCHANGED <<arena, trie, dbAcc, dbSto, dbJrn, dbRoot, noBuild, running, progress,
                   done, chClosed, faults, cause>>

\* generateStorages' loop after a segment: leave when exhausted or when the
\* origin overflows, and return into onAccount, which unmarks the marker
StoLoop ==
    /\ Alive /\ w.pc = "stoCb" /\ w.sQ = <<>>
    /\ w' = IF w.sExh \/ increaseKey(w.sLast, MaxSlot) = NoKey
            THEN [w EXCEPT !.pc = "accCb", !.accMarker = NoKey]
            ELSE [w EXCEPT !.pc = "stoRange",
                           !.sOrigin = increaseKey(w.sLast, MaxSlot)]
    /\ UNCHANGED <<arena, trie, dbAcc, dbSto, dbJrn, dbRoot, noBuild, running, progress,
                   done, stats, owner, chClosed, ctx, faults, cause>>

\* (variant: the storage rows after the last account are left behind)
AccLoopNoSweep ==
    /\ Alive /\ w.pc = "accCb" /\ w.aQ = <<>>
    /\ IF increaseKey(w.aLast, MaxKey) = NoKey \/ w.aExh
       THEN w' = [w EXCEPT !.pc = "finalCommit"]
       ELSE w' = [w EXCEPT !.pc = "accRange",
                           !.aOrigin = increaseKey(w.aLast, MaxKey)]
    /\ UNCHANGED <<arena, trie, dbAcc, dbSto, dbJrn, dbRoot, noBuild, running, progress,
                   done, stats, owner, chClosed, ctx, faults, cause>>

\* generateAccounts' loop after a segment: next origin, or the final sweep
\* of the remaining storage rows
AccLoop ==
    /\ Alive /\ w.pc = "accCb" /\ w.aQ = <<>>
    /\ IF increaseKey(w.aLast, MaxKey) = NoKey \/ w.aExh
       THEN /\ ctx' = removeRemainingStorage(ctx)
            /\ stats' = [stats EXCEPT !.dangling = @ + Cardinality(StoRows(ctx.sto))]
            /\ w' = [w EXCEPT !.pc = "finalCommit"]
       ELSE /\ w' = [w EXCEPT !.pc = "accRange",
                              !.aOrigin = increaseKey(w.aLast, MaxKey)]
            /\ UNCHANGED <<ctx, stats>>
    /\ UNCHANGED <<arena, trie, dbAcc, dbSto, dbJrn, dbRoot, noBuild, running, progress,
                   done, owner, chClosed, faults, cause>>

\* (variant: the journal record lands without the data writes of the batch)
WriteBatchJournalOnly(b, marker) ==
    [acc |-> dbAcc, sto |-> dbSto,
     jrn |-> journalProgress(marker, stats), batch |-> b]

\* ctx.batch.Write() of checkAndFlush and of generate's completion, after
\* journalProgress put the record for the marker into the batch: the data
\* writes and the journal record land together, and the batch is reset
WriteBatch(b, marker) ==
    [acc |-> ApplyAcc(dbAcc, b), sto |-> ApplySto(dbSto, b),
     jrn |-> journalProgress(marker, stats), batch |-> EmptyBatch]

\* checkAndFlush: journal the marker into the batch and write the batch
Commit ==
    /\ Alive /\ w.pc = "commit"
    /\ LET wr == WriteBatch(ctx.batch, w.cur)
       IN  /\ dbAcc' = wr.acc
           /\ dbSto' = wr.sto
           /\ dbJrn' = wr.jrn
           /\ ctx' = [ctx EXCEPT !.batch = wr.batch]
    /\ w' = [w EXCEPT !.pc = "publish"]
    /\ UNCHANGED <<arena, trie, dbRoot, noBuild, running, progress, done, stats, owner,
                   chClosed, faults, cause>>

\* checkAndFlush: publish the marker; then bubble the abort up, or reopen
\* both iterators and go on
Publish ==
    /\ Alive /\ w.pc = "publish"
    /\ progress' = w.cur
    /\ IF w.abort
       THEN /\ w' = [w EXCEPT !.pc = "closeAbort"]
            /\ UNCHANGED ctx
       ELSE /\ w' = [w EXCEPT !.pc = w.ret]
            /\ ctx' = [ctx EXCEPT !.acc = reopenAcc(@, dbAcc),
                                  !.sto = reopenSto(@, dbSto)]
    /\ UNCHANGED <<arena, trie, dbAcc, dbSto, dbJrn, dbRoot, noBuild, running, done,
                   stats, owner, chClosed, faults, cause>>

\* generate: close the reply channel the abort error carried, and return
CloseAbort ==
    /\ Alive /\ w.pc = "closeAbort"
    /\ chClosed' = TRUE
    /\ w' = [w EXCEPT !.pc = "exited"]
    /\ UNCHANGED <<arena, trie, dbAcc, dbSto, dbJrn, dbRoot, noBuild, running, progress,
                   done, stats, owner, ctx, faults, cause>>

\* generate: the snapshot is fully generated, journal the nil marker and
\* write the batch
FinalCommit ==
    /\ Alive /\ w.pc = "finalCommit"
    /\ LET wr == WriteBatch(ctx.batch, Nil)
       IN  /\ dbAcc' = wr.acc
           /\ dbSto' = wr.sto
           /\ dbJrn' = wr.jrn
           /\ ctx' = [ctx EXCEPT !.batch = wr.batch]
    /\ w' = [w EXCEPT !.pc = "clearMarker"]
    /\ UNCHANGED <<arena, trie, dbRoot, noBuild, running, progress, done, stats, owner,
                   chClosed, faults, cause>>

\* (variant: the in-memory marker is not cleared before done is closed)
ClearMarkerSkipped ==
    /\ Alive /\ w.pc = "clearMarker"
    /\ w' = [w EXCEPT !.pc = "closeDone"]
    /\ UNCHANGED <<arena, trie, dbAcc, dbSto, dbJrn, dbRoot, noBuild, running, progress,
                   done, stats, owner, chClosed, ctx, faults, cause>>

\* generate: g.progress = nil
ClearMarker ==
    /\ Alive /\ w.pc = "clearMarker"
    /\ progress' = Nil
    /\ w' = [w EXCEPT !.pc = "closeDone"]
    /\ UNCHANGED <<arena, trie, dbAcc, dbSto, dbJrn, dbRoot, noBuild, running, done,
                   stats, owner, chClosed, ctx, faults, cause>>

\* generate: close(g.done); closing a closed channel panics
CloseDone ==
    /\ Alive /\ w.pc = "closeDone"
    /\ IF done
       THEN /\ w' = [w EXCEPT !.pc = "panic"]
            /\ UNCHANGED done
       ELSE /\ done' = TRUE
            /\ w' = [w EXCEPT !.pc = "waitDone"]
    /\ UNCHANGED <<arena, trie, dbAcc, dbSto, dbJrn, dbRoot, noBuild, running, progress,
                   stats, owner, chClosed, ctx, faults, cause>>

\* generate: the blocking receive on the abort rendezvous after completion
\* or after an internal error, and the close of the channel received
WaitAbort ==
    /\ Alive /\ w.pc \in {"waitDone", "errWait"}
    /\ owner.pc = "send"
    /\ owner' = [owner EXCEPT !.pc = "wait"]
    /\ chClosed' = TRUE
    /\ w' = [w EXCEPT !.pc = "exited"]
    /\ UNCHANGED <<arena, trie, dbAcc, dbSto, dbJrn, dbRoot, noBuild, running, progress,
                   done, stats, ctx, faults, cause>>

\* ---------------------------------------------------------------- failures
CanFail == Alive /\ faults < MaxFaults
FailWith(kind, pc) ==
    /\ faults' = faults + 1
    /\ cause' = kind
    /\ w' = [w EXCEPT !.pc = pc]
    /\ UNCHANGED <<arena, trie, dbAcc, dbSto, dbJrn, dbRoot, noBuild, running, progress,
                   done, stats, owner, chClosed, ctx>>

\* generate: the write of the initial marker fails (log.Crit ends the process)
BootstrapFail ==
    /\ CanFail /\ w.pc = "start" /\ MLen(progress) = 0
    /\ FailWith("crit", "panic")

\* proveRange: the iterator yields a key below prefix||origin
InvalidIterPos ==
    /\ CanFail
    /\ \/ w.pc = "accRange" /\ AccYield # {}
       \/ w.pc = "stoRange" /\ StoRows(ctx.sto) # {}
    /\ FailWith("badpos", "errWait")

\* proveRange: the stack trie rejects a collected row
StackTrieErr ==
    /\ CanFail
    /\ \/ w.pc = "accRange" /\ ~AccBadPos /\ AccProof.fast /\ AccProof.keys # <<>>
       \/ w.pc = "stoRange" /\ ~StoBadPos /\ StoProof.fast /\ StoProof.keys # <<>>
    /\ FailWith("stack", "errWait")

\* proveRange (chunked path) or generateRange (fallback after a failed
\* full-set check): the trie cannot be opened
MissingTrie ==
    /\ CanFail
    /\ \/ w.pc = "accRange" /\ ~AccBadPos /\ ~(AccProof.fast /\ AccProof.valid)
       \/ w.pc = "stoRange" /\ ~StoBadPos /\ ~(StoProof.fast /\ StoProof.valid)
    /\ FailWith("missing", "errWait")

\* generateRange: the node iterator cannot be opened, or the trie iterator
\* stops with an error (before the tail sweep)
TrieIterErr ==
    /\ CanFail
    /\ \/ w.pc = "accRange" /\ ~AccBadPos /\ ~AccProof.valid
       \/ /\ w.pc = "accCb" /\ w.aInv
          /\ \/ Len(w.aQ) = w.aTail
             \/ Len(w.aQ) > w.aTail /\ Head(w.aQ).first
       \/ w.pc = "stoRange" /\ ~StoBadPos /\ ~StoProof.valid
       \/ /\ w.pc = "stoCb" /\ w.sInv
          /\ \/ Len(w.sQ) = w.sTail
             \/ Len(w.sQ) > w.sTail /\ Head(w.sQ).first
    /\ FailWith("trieIter", "errWait")

\* checkAndFlush: ctx.batch.Write() fails; the error returned is not an
\* abort error, whether or not a reply channel was taken
CommitFail ==
    /\ CanFail /\ w.pc = "commit"
    /\ FailWith("commit", "errWait")

\* generate: the final ctx.batch.Write() fails
FinalCommitFail ==
    /\ CanFail /\ w.pc = "finalCommit"
    /\ FailWith("commit", "errWait")

\* ------------------------------------------------------------------- owner
Spawn ==
    /\ running' = TRUE
    /\ w' = [NoWorker EXCEPT !.pc = "start", !.from = progress]
    /\ ctx' = newGeneratorContext(progress)

\* (variant: run starts the next worker without stopping the previous one)
RunNoStop ==
    /\ Alive /\ owner.pc = "idle" /\ owner.calls < MaxCalls
    /\ IF noBuild
       THEN /\ owner' = [owner EXCEPT !.calls = @ + 1]
            /\ UNCHANGED <<running, w, ctx>>
       ELSE /\ owner' = [owner EXCEPT !.calls = @ + 1]
            /\ Spawn
    /\ UNCHANGED <<arena, trie, dbAcc, dbSto, dbJrn, dbRoot, noBuild, progress, done,
                   stats, chClosed, faults, cause>>

\* generator.run
Run ==
    /\ Alive /\ owner.pc = "idle" /\ owner.calls < MaxCalls
    /\ IF noBuild
       THEN /\ owner' = [owner EXCEPT !.calls = @ + 1]
            /\ UNCHANGED <<running, w, ctx>>
       ELSE IF running
            THEN /\ owner' = [pc |-> "send", inRun |-> TRUE, calls |-> owner.calls + 1]
                 /\ UNCHANGED <<running, w, ctx>>
            ELSE /\ owner' = [owner EXCEPT !.calls = @ + 1]
                 /\ Spawn
    /\ UNCHANGED <<arena, trie, dbAcc, dbSto, dbJrn, dbRoot, noBuild, progress, done,
                   stats, chClosed, faults, cause>>

\* (variant: stop without the running check)
StopUnguarded ==
    /\ Alive /\ owner.pc = "idle" /\ owner.calls < MaxCalls
    /\ owner' = [pc |-> "send", inRun |-> FALSE, calls |-> owner.calls + 1]
    /\ UNCHANGED <<arena, trie, dbAcc, dbSto, dbJrn, dbRoot, noBuild, running, progress,
                   done, stats, chClosed, w, ctx, faults, cause>>

\* generator.stop up to the send on the abort rendezvous
Stop ==
    /\ Alive /\ owner.pc = "idle" /\ owner.calls < MaxCalls
    /\ owner' = IF running
                THEN [pc |-> "send", inRun |-> FALSE, calls |-> owner.calls + 1]
                ELSE [owner EXCEPT !.calls = @ + 1]
    /\ UNCHANGED <<arena, trie, dbAcc, dbSto, dbJrn, dbRoot, noBuild, running, progress,
                   done, stats, chClosed, w, ctx, faults, cause>>

\* generator.stop once the reply channel is closed; when stop was called by
\* run, run goes on and starts the next worker
StopReturn ==
    /\ Alive /\ owner.pc = "wait" /\ chClosed
    /\ chClosed' = FALSE
    /\ owner' = [owner EXCEPT !.pc = "idle", !.inRun = FALSE]
    /\ IF owner.inRun
       THEN Spawn
       ELSE /\ running' = FALSE
            /\ UNCHANGED <<w, ctx>>
    /\ UNCHANGED <<arena, trie, dbAcc, dbSto, dbJrn, dbRoot, noBuild, progress, done,
                   stats, faults, cause>>

\* generator.progressMarker and generator.completed
progressMarker == progress
completed == progressMarker = Nil

\* ------------------------------------------------- arena node allocator
\* The byte pages of an ArenaNodeAllocator:
\*   usedBytes  a.usedBytes
\*   bytes      len(a.bytes), the pages acquired from the pool
\*   live       the slices NewBytes has returned since the arena was created
\*              or last Reset, each as [page, lo, hi, len]
\*   calls      NewBytes calls made
\*   panic      a call indexed a.bytes, or sliced a page, out of range
NewArena == [usedBytes |-> 0, bytes |-> 0, live |-> {}, calls |-> 0, panic |-> FALSE]

\* ArenaNodeAllocator.NewBytes, statement by statement: [a, ok, page, lo, hi]
\* with a the allocator after the call and ok whether the index expression
\* a.bytes[pageIndex][pageOffset : pageOffset+requestLen] is in range
NewBytes(a, requestLen) ==
    LET pageIndex0 == a.usedBytes \div arenaPageSize
        pageOffset0 == a.usedBytes % arenaPageSize
        overflows == arenaPageSize - pageOffset0 < requestLen
        grow == pageOffset0 = 0 \/ overflows
        pageIndex == IF grow /\ overflows THEN pageIndex0 + 1 ELSE pageIndex0
        pageOffset == IF grow /\ overflows THEN 0 ELSE pageOffset0
        \* a.usedBytes += arenaPageSize - pageOffset, after pageOffset = 0
        used1 == IF grow /\ overflows
                 THEN a.usedBytes + (arenaPageSize - pageOffset)
                 ELSE a.usedBytes
        pages == IF grow THEN a.bytes + 1 ELSE a.bytes
    IN  [a |-> [a EXCEPT !.usedBytes = used1 + requestLen, !.bytes = pages],
         ok |-> pageIndex < pages /\ pageOffset + requestLen <= arenaPageSize,
         page |-> pageIndex, lo |-> pageOffset, hi |-> pageOffset + requestLen]

\* a caller asks the arena for requestLen bytes
ArenaNewBytes ==
    /\ ~arena.panic /\ arena.calls < MaxAllocs
    /\ \E requestLen \in 0..arenaPageSize :
          LET r == NewBytes(arena, requestLen)
          IN  arena' = IF r.ok
                       THEN [r.a EXCEPT !.calls = @ + 1,
                                        !.live = @ \cup {[page |-> r.page, lo |-> r.lo,
                                                          hi |-> r.hi, len |-> requestLen]}]
                       ELSE [r.a EXCEPT !.calls = @ + 1, !.panic = TRUE]
    /\ UNCHANGED <<trie, dbAcc, dbSto, dbJrn, dbRoot, noBuild, running, progress,
                   done, stats, owner, chClosed, w, ctx, faults, cause>>

\* ArenaNodeAllocator.Reset: the counters return to zero, the pages stay
ArenaReset ==
    /\ ~arena.panic /\ arena.usedBytes > 0
    /\ arena' = [arena EXCEPT !.usedBytes = 0, !.live = {}]
    /\ UNCHANGED <<trie, dbAcc, dbSto, dbJrn, dbRoot, noBuild, running, progress,
                   done, stats, owner, chClosed, w, ctx, faults, cause>>

\* ------------------------------------------------------------ initial state
Tries == [Keys -> {NoKey} \cup Roots]
\* the snapshot that mirrors trie t exactly
SnapAccOf(t) == [k \in Keys |-> IF t[k] = NoKey THEN NoAcc ELSE SlimAcc(t[k])]
SnapStoOf(t) ==
    [k \in Keys |-> [s \in Slots |->
        IF t[k] # NoKey /\ s \in SlotsOfRoot(t[k]) THEN TrieSlotVal ELSE 0]]

InitWith(t, acc, sto, nb) ==
    /\ trie = t
    /\ dbAcc = acc
    /\ dbSto = sto
    /\ dbJrn = NoJournal
    /\ dbRoot = FALSE
    /\ noBuild = nb
    /\ running = FALSE
    /\ progress = <<>>
    /\ done = FALSE
    /\ stats = [accounts |-> 0, slots |-> 0, dangling |-> 0]
    /\ owner = [pc |-> "idle", inRun |-> FALSE, calls |-> 0]
    /\ chClosed = FALSE
    /\ w = NoWorker
    /\ ctx = newGeneratorContext(<<>>)
    /\ faults = 0
    /\ cause = ""
    /\ arena = NewArena

\* Damage a store may have suffered: an account row the slim decoder
\* rejects, an account row lost while its storage rows stay behind, or a
\* storage row with a wrong value (or one that should not exist).
FullRoot == Pow2(NSlots) - 1
Damages == {"none", "bad", "orphan", "slot"}
DamagedAcc(acc, d) ==
    IF d = "bad" THEN [acc EXCEPT ![1] = BadAcc]
    ELSE IF d = "orphan" THEN [acc EXCEPT ![1] = NoAcc]
    ELSE acc
DamagedSto(sto, d) ==
    IF d = "orphan" THEN [sto EXCEPT ![1][0] = 2]
    ELSE IF d = "slot" THEN [sto EXCEPT ![MaxKey][MaxSlot] = 2]
    ELSE sto

\* The generator is created with the empty marker (generateSnapshot) over a
\* store that holds the rows of an older state old, for a trie t: account 0
\* is a contract whose storage is missing from the snapshot, account 1 is
\* gone and left dangling storage rows behind, the last account varies on
\* both sides.
Init ==
    \E t \in Tries, old \in Tries, nb \in BOOLEAN :
        /\ t[0] = 1 /\ t[1] = NoKey /\ t[MaxKey] \in {NoKey, 1, FullRoot}
        /\ old[0] = EmptyRootHash /\ old[1] = FullRoot
        /\ old[MaxKey] \in {EmptyRootHash, FullRoot}
        /\ \A k \in Keys : k > 1 /\ k < MaxKey => t[k] = NoKey /\ old[k] = NoKey
        /\ InitWith(t, DamagedAcc(SnapAccOf(old), "orphan"),
                    DamagedSto(SnapStoOf(old), "orphan"), nb)

Next ==
    \/ Bootstrap \/ AccRange \/ OnAccount \/ AccPost \/ StoRange \/ OnStorage
    \/ StoLoop \/ AccLoop \/ Commit \/ Publish \/ CloseAbort \/ FinalCommit
    \/ ClearMarker \/ CloseDone \/ WaitAbort
    \/ BootstrapFail \/ InvalidIterPos \/ StackTrieErr \/ MissingTrie
    \/ TrieIterErr \/ CommitFail \/ FinalCommitFail
    \/ Run \/ Stop \/ StopReturn

Spec == Init /\ [][Next]_vars

\* ------------------------------------------- one uninterrupted, failure-free run
\* The store holds the rows of any older state old whose contracts are whole,
\* intact or damaged in one of the ways above.
WholeTries == {o \in Tries : \A k \in Keys : o[k] \in {NoKey, EmptyRootHash, FullRoot}}

InitConv ==
    \E t \in Tries, old \in WholeTries, d \in Damages :
        InitWith(t, DamagedAcc(SnapAccOf(old), d), DamagedSto(SnapStoOf(old), d), FALSE)

\* run() once, then the worker alone
RunOnce == ~running /\ Run

NextConv ==
    \/ RunOnce
    \/ Bootstrap \/ AccRange \/ OnAccount \/ AccPost \/ StoRange \/ OnStorage
    \/ StoLoop \/ AccLoop \/ Commit \/ Publish \/ FinalCommit
    \/ ClearMarker \/ CloseDone

SpecConv == InitConv /\ [][NextConv]_vars

\* ------------------------------------------ the arena alone, generator idle
InitArena ==
    InitWith([k \in Keys |-> NoKey], [k \in Keys |-> NoAcc],
             [k \in Keys |-> [sl \in Slots |-> 0]], TRUE)

NextArena == ArenaNewBytes \/ ArenaReset

SpecArena == InitArena /\ [][NextArena]_vars

\* ------------------------------------------------------------------ claims
\* the committed snapshot, enumerated in key order, is the trie's content
SnapIsTrie == dbAcc = SnapAccOf(trie) /\ dbSto = SnapStoOf(trie)

\* How far the worker is through generate, as a tuple ordered
\* lexicographically: the phase of generate, the account segment's origin,
\* whether the segment is reconciled, the elements handed to onAccount, the
\* position inside onAccount, and the same for the storage pass.
Phase ==
    CASE w.pc = "none" -> 0
      [] w.pc = "start" -> 1
      [] w.pc = "finalCommit" -> 3
      [] w.pc = "clearMarker" -> 4
      [] w.pc = "closeDone" -> 5
      [] w.pc = "waitDone" -> 6
      [] OTHER -> 2
InStorage == w.pc \in {"stoRange", "stoCb"} \/ (w.pc \in {"commit", "publish"} /\ w.ret = "stoCb")
AccStep ==
    CASE w.pc = "accCb" -> 4
      [] InStorage -> 3
      [] w.pc = "accPost" -> 2
      [] w.pc = "publish" -> 1
      [] OTHER -> 0
StoStep ==
    CASE w.pc = "stoCb" -> 2
      [] w.pc = "publish" -> 1
      [] OTHER -> 0
Rank ==
    <<Phase,
      w.aOrigin + 1, IF w.pc = "accRange" THEN 0 ELSE 1, 0 - Len(w.aQ), AccStep,
      w.sOrigin + 1, IF w.pc = "stoRange" THEN 0 ELSE 1, 0 - Len(w.sQ), StoStep>>

InterruptedConvergence ==
    /\ completed => SnapIsTrie
    /\ w.pc = "exited" /\ w.abort => ~completed
    /\ w.pc = "waitDone" => completed
    /\ faults = 0 /\ ~done => cause = "" /\ w.pc \notin {"errWait", "panic"}

\* a run resumed from a two-segment marker has completed
InterruptedConvergenceWitness ==
    /\ w.pc = "waitDone" /\ MLen(w.from) = 2 /\ owner.calls >= 2
    /\ SnapIsTrie /\ completed

\* C3 (Monotone progress): on every step, under any interleaving of run, stop
\* and resume, a non-nil published marker is replaced only by nil or by a
\* marker that is byte-lexicographically not smaller, and the same holds for
\* the marker of the committed journal record until the record that says done.
MonotoneProgress ==
    [][/\ progress # Nil /\ progress' # Nil => LexLeq(progress, progress')
       /\ dbJrn.set /\ ~dbJrn.done /\ ~dbJrn'.done
              => LexLeq(dbJrn.marker, dbJrn'.marker)]_vars

\* the account checkpoint of a run resumed from a two-segment marker has
\* journalled and published a marker
MonotoneProgressWitness ==
    /\ MLen(w.from) = 2 /\ w.pc = "closeAbort" /\ w.ret = "accPost"
    /\ progress = w.cur /\ dbJrn.marker = w.cur

\* C4 (Stop handshake during a pass): the reply channel of a stop request
\* taken at a checkpoint is closed only after the batch and the journal
\* record for the checkpoint's marker are committed and the marker is
\* published; while it is closed the journal marker equals progressMarker(),
\* nothing is pending in the batch and the worker has returned; and when
\* that stop() returns to its caller, running is false.
StopHandshake ==
    /\ [](chClosed /\ w.abort
             => /\ dbJrn.marker = progressMarker /\ ~dbJrn.done
                /\ ctx.batch = EmptyBatch /\ w.pc = "exited")
    /\ [][/\ chClosed' /\ ~chClosed /\ w.abort
               => /\ progress = w.cur /\ dbJrn.marker = w.cur
                  /\ UNCHANGED <<dbAcc, dbSto, dbJrn, progress>>
          /\ chClosed /\ ~chClosed' /\ ~owner.inRun
               => ~running' /\ owner'.pc = "idle" /\ w' = w]_vars

\* a stop taken at a storage-level checkpoint is acknowledged
StopHandshakeWitness ==
    /\ chClosed /\ w.abort /\ owner.pc = "wait" /\ ~owner.inRun
    /\ MLen(progress) = 2 /\ dbJrn.marker = progress /\ dbJrn.slots > 0

\* C5 (stop() never blocks forever): a stop() whose request has been received
\* and whose reply channel is still open faces a worker that still holds the
\* channel and is on its way to close it, and a stop() blocked on the send
\* faces a worker that can still receive; so no stop() is left waiting on a
\* channel nobody will close.
StopNeverBlocks ==
    /\ owner.pc = "wait" /\ ~chClosed => w.pc \in {"commit", "publish", "closeAbort"}
    /\ owner.pc = "send" => w.pc \notin {"none", "exited"}

\* C6 (Journal never ahead of data): every operation pending in the worker's
\* batch concerns a key strictly above the committed journal marker (so what
\* the callbacks and the dangling sweep issued up to the marker is
\* committed), nothing is pending once the journal says done, and a step
\* changes the journal record or the snapshot rows only by writing the whole
\* batch together with the journal record and emptying the batch.
JournalNeverAhead ==
    /\ [](/\ \A k \in Keys : ctx.batch.acc[k] # NoOp
                  => LexLess(MBytes(dbJrn.marker), <<k>>)
          /\ \A k \in Keys, sl \in Slots : ctx.batch.sto[k][sl] # -1
                  => LexLess(MBytes(dbJrn.marker), <<k, sl>>)
          /\ dbJrn.done => ctx.batch = EmptyBatch)
    /\ [][dbJrn' # dbJrn \/ dbAcc' # dbAcc \/ dbSto' # dbSto
            => /\ dbAcc' = ApplyAcc(dbAcc, ctx.batch)
               /\ dbSto' = ApplySto(dbSto, ctx.batch)
               /\ dbJrn'.set /\ ctx'.batch = EmptyBatch]_vars

\* a journal record is committed while the next operations, dangling
\* deletions among them, wait in the batch
JournalNeverAheadWitness ==
    /\ dbJrn.set /\ MLen(dbJrn.marker) > 0 /\ w.pc \in {"accCb", "stoCb", "accPost"}
    /\ stats.dangling > 0 /\ dbJrn.accounts > 0
    /\ \E k \in Keys : ctx.batch.acc[k] # NoOp
    /\ \E k \in Keys, sl \in Slots : ctx.batch.sto[k][sl] = 0

\* the in-memory marker p claims more than the journal marker j; nil claims
\* everything
MarkerAhead(p, j) ==
    IF j = Nil THEN FALSE ELSE IF p = Nil THEN TRUE ELSE LexLess(j, p)

\* C7 (In-memory marker follows the commit): the in-memory marker is never
\* ahead of the committed journal marker; it changes only to the marker of
\* the journal record already committed; and the step on which a batch commit
\* fails leaves it (and the journal) as they were.
MarkerFollowsCommit ==
    /\ [](dbJrn.set => ~MarkerAhead(progress, dbJrn.marker))
    /\ [][/\ progress' # progress
               => dbJrn.set /\ dbJrn.marker = progress' /\ dbJrn' = dbJrn
          /\ cause' = "commit" /\ cause # "commit"
               => UNCHANGED <<progress, dbJrn, dbAcc, dbSto>>]_vars

\* C8 (Completion sequence), as the spec orders it: the done-signal is closed
\* before the in-memory marker is cleared, so the step that sets the marker
\* to nil finds done closed.
CompletionSequenceSpecOrder ==
    [][progress' = Nil /\ progress # Nil => done]_vars

\* C8 (Completion sequence), as the code orders it: the marker is cleared
\* only after the journal record with done=true and the nil marker is
\* committed; the done-signal is closed only after the marker is cleared;
\* the wait for an abort request starts with the closing of the done-signal
\* and ends with the request acknowledged and the worker returned; in that
\* wait progressMarker() is nil and completed() is true; and completed() is
\* true exactly when the marker is nil.
CompletionSequence ==
    /\ [](w.pc = "waitDone" => progressMarker = Nil /\ completed /\ done /\ dbJrn.done)
    /\ [](completed <=> progress = Nil)
    /\ [][/\ progress' = Nil /\ progress # Nil
               => dbJrn.done /\ dbJrn.marker = Nil /\ UNCHANGED <<dbJrn, done>>
          /\ done' /\ ~done
               => progress = Nil /\ dbJrn.done /\ w'.pc = "waitDone" /\ UNCHANGED progress
          /\ w'.pc = "waitDone" /\ w.pc # "waitDone" => done' /\ ~done
          /\ w.pc = "waitDone" /\ w'.pc # "waitDone"
               => w'.pc = "exited" /\ chClosed' /\ owner.pc = "send"]_vars

\* the worker has completed and acknowledged the abort request it waited for
CompletionSequenceWitness ==
    /\ w.pc = "exited" /\ ~w.abort /\ cause = "" /\ chClosed
    /\ done /\ completed /\ dbJrn.done

\* C9 (Missing-trie pause): the step on which opening the trie fails commits
\* nothing, leaves the in-memory marker and the done-signal as they were and
\* takes the worker to the wait for an abort request; while it waits there,
\* done is not closed, progressMarker() is the last committed position and
\* completed() is false.
MissingTriePause ==
    /\ [](w.pc = "errWait" /\ cause = "missing"
            => ~done /\ progressMarker = dbJrn.marker /\ ~completed)
    /\ [][/\ cause' = "missing" /\ cause # "missing"
               => /\ UNCHANGED <<dbJrn, dbAcc, dbSto, progress, done>>
                  /\ w'.pc = "errWait"
          /\ w.pc = "errWait" /\ cause = "missing" /\ w'.pc # "errWait"
               => w'.pc = "exited" /\ chClosed' /\ owner.pc = "send"]_vars

\* C10 (stop() on a generator that is not running): a stop() step taken while
\* running is false returns at once: the owner is idle again, nothing is sent
\* on the abort rendezvous and the marker, the running flag, the journal, the
\* snapshot rows and the worker are unchanged; and with noBuild set no worker
\* is ever started, running is never set and nothing is written.
StopNotRunning ==
    /\ [](noBuild => /\ ~running /\ w = NoWorker /\ owner.pc = "idle"
                     /\ progress = <<>> /\ dbJrn = NoJournal /\ ~dbRoot)
    /\ [][Stop /\ ~running
            => /\ owner'.pc = "idle" /\ owner'.calls = owner.calls + 1
               /\ UNCHANGED <<progress, running, dbJrn, dbRoot, dbAcc, dbSto,
                              done, chClosed, w, ctx>>]_vars

\* Three calls have returned on a generator whose only worker took a stop
\* request at a checkpoint: one of them was a stop() that found it not
\* running (before it was started, or after it was stopped).
StopNotRunningWitness ==
    /\ owner.pc = "idle" /\ owner.calls = 3 /\ ~running /\ ~noBuild /\ faults = 0
    /\ w.pc = "exited" /\ w.abort /\ w.from = <<>> /\ MLen(progress) > 0

\* a step of the owner that starts a worker
SpawnStep == w'.pc = "start" /\ owner'.pc = "idle" /\ owner' # owner

\* C11 (Single worker): a worker is started only when no worker exists or
\* the previous one has returned; when run() starts it on a running
\* generator the stop handshake is complete (reply channel closed, previous
\* worker returned); the new worker's context is opened at the published
\* marker; a worker that has returned takes no further step; and while
\* running is false no worker is in a pass.
SingleWorker ==
    /\ [](~running => w.pc \in {"none", "exited"})
    /\ [][/\ SpawnStep
               => /\ w.pc \in {"none", "exited"}
                  /\ owner.inRun => chClosed /\ w.pc = "exited"
                  /\ running' /\ w'.from = progress
                  /\ ctx' = newGeneratorContext(progress)
                  /\ UNCHANGED <<progress, dbJrn, dbAcc, dbSto>>
          /\ w.pc = "exited" /\ w' # w => SpawnStep]_vars

\* run() on a running generator has stopped the previous worker at a
\* checkpoint and started the next one from the marker it published
SingleWorkerWitness ==
    /\ w.pc = "start" /\ owner.calls = 2 /\ owner.pc = "idle" /\ running
    /\ MLen(w.from) > 0 /\ w.from = progress /\ dbJrn.marker = progress

\* C12 (Bounded resume replay): a worker resumed from marker M invokes the
\* account callback for no key below M's account part and the storage
\* callback for no key below M (both passes start at the origin M names), so
\* the callbacks replayed below M stay within one segment's worth.
BoundedResumeReplay ==
    /\ w.replay = 0
    /\ w.replay <= accountCheckRange /\ w.replay <= storageCheckRange

\* a worker resumed from a two-segment marker is past the interrupted
\* account's storage pass and has handed a later account to the callback
BoundedResumeReplayWitness ==
    /\ MLen(w.from) = 2 /\ w.pc = "accPost" /\ w.acct > w.from[1]
    /\ stats.slots > 1 /\ owner.calls >= 2

\* no element still queued for a callback asks for a write or a delete
NoEdit(q) == \A i \in DOMAIN q : ~q[i].write /\ ~q[i].del
\* the store is exactly the trie's content, nothing is batched and no
\* checkpoint or completion record was committed: in SpecConv these are the
\* states of a run that started over a snapshot equal to the trie and has
\* issued no edit so far
Untouched == SnapIsTrie /\ ctx.batch = EmptyBatch /\ dbJrn.marker = <<>>

\* C13 (Idempotence): a generator started with the empty marker over a
\* snapshot that is already the trie's content hands every element to its
\* callback with write = false and delete = false, reaps no storage row,
\* batches nothing and never flushes; every step leaves the store as it is,
\* the final commit only adds the done record, and the run ends with the
\* marker nil.
Idempotence ==
    /\ [](Untouched =>
            /\ NoEdit(w.aQ) /\ NoEdit(w.sQ)
            /\ w.aTail = 0 /\ w.sTail = 0 /\ stats.dangling = 0
            /\ w.pc \notin {"commit", "publish", "errWait", "panic"})
    /\ [][Untouched =>
            /\ UNCHANGED <<dbAcc, dbSto>> /\ ctx'.batch = EmptyBatch
            /\ LexLess(Rank, Rank')
            /\ IF w.pc = "finalCommit"
               THEN dbJrn'.done /\ dbJrn'.marker = Nil /\ w'.pc = "clearMarker"
               ELSE Untouched']_vars
    /\ [](w.pc \in {"closeDone", "waitDone"} => completed /\ dbJrn.done)

\* a rerun over three whole contracts reached its final commit untouched
IdempotenceWitness ==
    /\ Untouched /\ w.pc = "finalCommit"
    /\ stats.accounts = MaxKey + 1 /\ stats.slots = (MaxKey + 1) * NSlots

\* what a marker covers: nil (generation done) covers everything, the empty
\* marker nothing, otherwise the keys byte-lexicographically at or below it
AccCovered(k, marker) ==
    marker = Nil \/ (MLen(marker) > 0 /\ LexLeq(<<k>>, marker))
StoCovered(o, s, marker) ==
    marker = Nil \/ (MLen(marker) > 0 /\ LexLeq(<<o, s>>, marker))

\* C14 (Covered range is correct): in every reachable state every account
\* key and every storage key owner||slot the in-memory marker covers holds,
\* in the committed store, exactly what the trie holds for it, and no row
\* where the trie holds none.
CoveredRangeCorrect ==
    /\ \A k \in Keys :
          AccCovered(k, progressMarker) => dbAcc[k] = SnapAccOf(trie)[k]
    /\ \A o \in Keys, s \in Slots :
          StoCovered(o, s, progressMarker) => dbSto[o][s] = SnapStoOf(trie)[o][s]

\* a two-segment marker whose covered rows had to be repaired, while rows
\* above it are still wrong
CoveredRangeCorrectWitness ==
    /\ MLen(progressMarker) = 2 /\ progressMarker[1] = 0
    /\ dbAcc[0] = SlimAcc(trie[0]) /\ dbSto[0][0] = TrieSlotVal
    /\ dbSto[1][0] # SnapStoOf(trie)[1][0]

\* the store is the trie's content except that the row of account 1, which
\* the trie holds, is one the slim decoder rejects; no checkpoint or
\* completion record was committed yet
Poisoned ==
    /\ trie[1] # NoKey /\ dbJrn.marker = <<>>
    /\ dbAcc = [SnapAccOf(trie) EXCEPT ![1] = BadAcc]
    /\ dbSto = SnapStoOf(trie)
\* the account segment about to be proven holds the poisoned row
PoisonedSegment == w.pc = "accRange" /\ 1 \in SeqSet(AccCollect.keys)

StoAfter(b) == ApplySto(dbSto, b)
\* the rows, in the store as the pending batch leaves it, below account a
\* whose owner is no account of the trie
DanglingBelow(a) ==
    {r \in Keys \X Slots :
        r[1] < a /\ trie[r[1]] = NoKey /\ StoAfter(ctx.batch)[r[1]][r[2]] # 0}
\* a step of onAccount for the element at the head of the queue
OnAccountStep == w.pc = "accCb" /\ w.aQ # <<>> /\ w'.aQ = Tail(w.aQ)
\* the step of generateAccounts that leaves the loop after the last account
LastSweepStep == w.pc = "accCb" /\ w'.pc = "finalCommit"

\* C16 (Dangling storage is reaped before the next account): the callback
\* for account A, whatever the element's flags, leaves in the batch a delete
\* for every storage row below A whose owner is no account of the trie, in
\* the same step that batches A's own write or delete, and adds exactly
\* their number to the dangling counter; the step after the last account
\* deletes and counts all rows that remain, so that the batch then holds
\* the trie's storage exactly.
DanglingReaped ==
    [][/\ OnAccountStep =>
            LET A == Head(w.aQ).key
            IN  /\ \A o \in Keys, s \in Slots :
                      o < A /\ trie[o] = NoKey => StoAfter(ctx'.batch)[o][s] = 0
                /\ stats'.dangling = stats.dangling + Cardinality(DanglingBelow(A))
                /\ Head(w.aQ).del =>
                      ctx'.batch.size >= ctx.batch.size + Cardinality(DanglingBelow(A)) + 1
       /\ LastSweepStep =>
            /\ StoAfter(ctx'.batch) = SnapStoOf(trie)
            /\ stats'.dangling = stats.dangling + Cardinality(DanglingBelow(MaxKey + 1))]_vars

\* account MaxKey was handed to the callback after the rows of a vanished
\* account below it were deleted in the batch and counted
DanglingReapedWitness ==
    /\ w.pc = "accPost" /\ w.acct = MaxKey /\ trie[1] = NoKey
    /\ dbSto[1][0] # 0 /\ ctx.batch.sto[1][0] = 0 /\ stats.dangling > 0

\* the rows a step removes from the store as the pending batch leaves it
Removed ==
    {r \in Keys \X Slots :
        /\ StoAfter(ctx.batch)[r[1]][r[2]] # 0
        /\ ApplySto(dbSto', ctx'.batch)[r[1]][r[2]] = 0}
\* the rows of account a are gone once the step's batch is written
StorageGone(a) == \A s \in Slots : ApplySto(dbSto', ctx'.batch)[a][s] = 0

\* C17 (Owned storage is dropped without counting as dangling): the callback
\* of an account handed as deleted removes every storage row of that
\* account, and so does the callback of an account whose record declares the
\* empty storage root; neither removal changes the dangling counter, which
\* in every step grows by exactly the removed rows whose owner is neither an
\* account of the trie nor the deleted account being handed.
OwnedStorageNotDangling ==
    [][/\ stats'.dangling - stats.dangling =
              Cardinality({r \in Removed :
                              /\ trie[r[1]] = NoKey
                              /\ ~(OnAccountStep /\ Head(w.aQ).key = r[1])})
       /\ OnAccountStep /\ Head(w.aQ).del => StorageGone(Head(w.aQ).key)
       /\ w.pc = "accPost" /\ w.aroot = EmptyRootHash /\ w'.pc = "accCb" =>
              StorageGone(w.acct) /\ stats' = stats]_vars

\* account 0, gone from the trie, was handed as deleted, both of its storage
\* rows were deleted in the batch, and nothing was counted as dangling
OwnedStorageNotDanglingWitness ==
    /\ w.pc = "accCb" /\ trie[0] = NoKey /\ ctx.batch.acc[0] = DelOp
    /\ dbSto[0][0] # 0 /\ dbSto[0][1] # 0
    /\ ctx.batch.sto[0][0] = 0 /\ ctx.batch.sto[0][1] = 0
    /\ stats.dangling = 0

\* a step of onStorage for the element at the head of the queue
OnStorageStep == w.pc = "stoCb" /\ w.sQ # <<>> /\ w'.sQ = Tail(w.sQ)
\* the element a callback step is handed
Handed == IF w.pc = "accCb" THEN Head(w.aQ) ELSE Head(w.sQ)
\* what checkAndFlush would see at the end of a callback step: the batch the
\* callback leaves, and whether a stop() is blocked on the abort rendezvous
FlushDue == NeedFlush(ctx'.batch.size, owner.pc = "send")
\* the callback step ended in checkAndFlush: a due flush starts (taking the
\* abort request if there is one), otherwise the callback goes on
Checked ==
    IF FlushDue
    THEN /\ w'.pc = "commit"
         /\ w'.abort = (owner.pc = "send")
         /\ owner.pc = "send" => owner'.pc = "wait"
    ELSE w'.pc = (IF w.pc = "accCb" THEN "accPost" ELSE "stoCb") /\ owner' = owner

\* C18 as the spec states it: every callback step, for a written, an
\* untouched or a deleted element alike, ends in checkAndFlush
CheckpointAfterEveryCallback ==
    [][OnAccountStep \/ OnStorageStep => Checked]_vars

\* C18 (Checkpoint after every callback), as the code has it: the callback
\* of a written or untouched element ends in checkAndFlush, which notices a
\* pending abort request or a full batch; the callback of a deleted element
\* returns without it, whatever the batch size and whether or not a stop()
\* is waiting, and the next element is handed to the callback.
CheckpointAfterLiveCallback ==
    [][OnAccountStep \/ OnStorageStep =>
          IF Handed.del
          THEN w'.pc = w.pc /\ owner' = owner /\ UNCHANGED <<dbAcc, dbSto, dbJrn, progress>>
          ELSE Checked]_vars

\* the last account of the segment was handed as deleted while a stop() was
\* waiting, and the worker is back in the segment loop with the request
\* still pending; an earlier element did go through a checkpoint
CheckpointAfterLiveCallbackWitness ==
    /\ w.pc = "accCb" /\ w.aQ = <<>> /\ owner.pc = "send"
    /\ ctx.batch.acc[MaxKey] = DelOp /\ MLen(progress) > 0

\* a callback step that reaches checkAndFlush (the element is not deleted)
CheckStep == (OnAccountStep \/ OnStorageStep) /\ ~Handed.del
\* the marker such a step hands to checkAndFlush
HandedMarker ==
    IF w.pc = "accCb"
    THEN onAccountMarker(Handed.key, w.accMarker # NoKey /\ Handed.key = w.accMarker)
    ELSE <<w.acct, Handed.key>>
\* what a flush does once it is decided: the journal record for the marker
\* and the batched rows are written together, the batch is reset, and then
\* the marker is published
FlushSteps ==
    /\ w.pc = "commit" /\ w'.pc = "publish" =>
          /\ dbJrn' = journalProgress(w.cur, stats)
          /\ dbAcc' = ApplyAcc(dbAcc, ctx.batch) /\ dbSto' = ApplySto(dbSto, ctx.batch)
          /\ ctx'.batch = EmptyBatch /\ progress' = progress
    /\ w.pc = "publish" /\ w' # w => progress' = w.cur
\* a call that decides not to flush leaves the batch as the callback built
\* it and the store, the journal and the marker as they are
NoFlush ==
    /\ UNCHANGED <<dbAcc, dbSto, dbJrn, progress>>
    /\ ctx'.batch.size >= ctx.batch.size
    /\ w'.pc \in {"accPost", "stoCb"}

\* C19 as the spec states it: checkAndFlush flushes exactly when the batch
\* size is greater than or equal to the threshold or an abort was read
FlushAtThreshold ==
    [][CheckStep =>
          (w'.pc = "commit") = (ctx'.batch.size >= IdealBatchSize \/ owner.pc = "send")]_vars

\* C19 (Flush condition), as the code has it: checkAndFlush journals,
\* commits, resets the batch and publishes the marker exactly when the batch
\* size is strictly greater than the threshold or an abort request was read
\* by the non-blocking poll; a batch whose size equals the threshold is not
\* flushed, and without a flush the batch, the journal and the marker are
\* left unchanged.
FlushAboveThreshold ==
    [][/\ CheckStep =>
            IF ctx'.batch.size > IdealBatchSize \/ owner.pc = "send"
            THEN /\ w'.pc = "commit" /\ w'.cur = HandedMarker
                 /\ w'.abort = (owner.pc = "send")
            ELSE NoFlush
       /\ FlushSteps]_vars

\* a storage callback left the batch exactly at the threshold, nobody asked
\* to stop, and the worker went on without flushing
FlushAboveThresholdWitness ==
    /\ w.pc = "stoCb" /\ stats.slots = 1 /\ ctx.batch.size = IdealBatchSize
    /\ progress = <<>> /\ dbJrn.marker = <<>> /\ owner.calls = 1

\* the key a callback step is handed, in the key space of the markers: the
\* account hash, or owner||slot for a storage slot
KeyHanded == IF w.pc = "accCb" THEN <<Handed.key>> ELSE <<w.acct, Handed.key>>
\* a callback step whose checkAndFlush decides to flush; w'.cur is the
\* marker the flush journals and publishes
FlushDecided == CheckStep /\ w'.pc = "commit"
\* the account callback of the account a two-segment marker interrupted, in
\* the worker that was started with that marker
ResumedAccount ==
    /\ w.pc = "accCb" /\ MLen(w.from) = 2
    /\ w.accMarker # NoKey /\ Handed.key = w.from[1]

\* C20 as the spec states it: every marker a flush publishes is at or below
\* the key the callback was just handed
MarkerAtMostKey ==
    [][FlushDecided => LexLeq(w'.cur, KeyHanded)]_vars

\* C20, as the code has it: the marker a flush publishes is the key the
\* callback was just handed (the account hash at an account checkpoint,
\* owner||slot at a storage checkpoint), except at the account checkpoint of
\* the interrupted account after a resume from a two-segment marker: there
\* the two-segment marker itself is published again, which has the account
\* key just handed as a proper prefix and is therefore above it.
MarkerIsKeyOrResumed ==
    [][/\ FlushDecided =>
            IF ResumedAccount
            THEN /\ w'.cur = w.from /\ w.from = progress
                 /\ LexLess(KeyHanded, w'.cur)
            ELSE w'.cur = KeyHanded
       /\ w.pc = "publish" /\ w' # w => progress' = w.cur]_vars

\* a resumed worker took a stop request at the account checkpoint of the
\* interrupted account and is about to publish the two-segment marker
MarkerIsKeyOrResumedWitness ==
    /\ w.pc = "commit" /\ w.ret = "accPost" /\ w.abort
    /\ MLen(w.cur) = 2 /\ w.cur = w.from /\ w.acct = w.cur[1]
    /\ owner.calls >= 2

\* the rows of the iterators' views, inside the prefix, between two keys
AccWindow(lo, hi) == {k \in Keys : ctx.acc.view[k].k # "none" /\ k >= lo /\ k <= hi}
StoWindow(lo, hi) == {s \in Slots : ctx.sto.view[w.acct][s] # 0 /\ s >= lo /\ s <= hi}
Ascending(q) == \A i \in 1..(Len(q) - 1) : q[i] < q[i + 1]
FromOf(origin) == IF origin = NoKey THEN 0 ELSE origin
\* what the prover must have collected from the rows inside the prefix at or
\* above the origin: the first max of them, in order, none left out, and
\* diskMore exactly when one more follows
Collected(c, max, lo, window, rest) ==
    /\ Len(c.keys) <= max /\ Ascending(c.keys)
    /\ \A i \in 1..Len(c.keys) : c.keys[i] >= lo
    /\ SeqSet(c.keys) = window
    /\ c.diskMore = (Len(c.keys) = max /\ rest # {})
    /\ ~c.diskMore => rest = {}

\* C21 (Range prover output): a segment that passes the position check
\* collects at most max rows, ascending, all inside the prefix and at or
\* above the origin, and exactly the rows of the store's view from the
\* origin to the last collected key; diskMore is true exactly when max rows
\* were collected and a further row inside the prefix follows; the iterator
\* is left so that it yields again every row it had not collected (the row
\* that ended the scan first), and the account segment that follows starts
\* right after the last key of the one before, so consecutive segments
\* neither skip a row nor collect one twice.
ProverOutput ==
    [][/\ w.pc = "accRange" /\ w'.pc = "accCb" =>
            LET c == AccCollect
                lo == FromOf(w.aOrigin)
                last == LastOf(c.keys)
            IN  /\ Collected(c, accountCheckRange, lo,
                             IF last = NoKey THEN {} ELSE AccWindow(lo, last),
                             AccWindow(Max({lo, last + 1}), MaxKey))
                /\ w'.aLast = last
                /\ w.aLast # NoKey /\ w.aOrigin # w.accMarker => lo = w.aLast + 1
                /\ AccRows(ctx'.acc) = AccRows(ctx.acc) \ SeqSet(c.keys)
                /\ c.diskMore => Min(AccRows(ctx'.acc)) = Min(AccWindow(last + 1, MaxKey))
       /\ w.pc = "stoRange" /\ w'.pc = "stoCb" =>
            LET c == StoCollect
                lo == FromOf(w.sOrigin)
                last == LastOf(c.keys)
            IN  /\ Collected(c, storageCheckRange, lo,
                             IF last = NoKey THEN {} ELSE StoWindow(lo, last),
                             StoWindow(Max({lo, last + 1}), MaxSlot))
                /\ w'.sLast = last
                /\ StoRows(ctx'.sto) =
                      StoRows(ctx.sto) \ {StoIdx(w.acct, k) : k \in SeqSet(c.keys)}
                /\ c.diskMore =>
                      Min(StoRows(ctx'.sto)) = StoIdx(w.acct, Min(StoWindow(last + 1, MaxSlot)))]_vars

\* an account segment was cut after max rows and the row after them is the
\* one the iterator yields next
ProverOutputWitness ==
    /\ w.pc = "accCb" /\ w.aOrigin = NoKey /\ w.aLast = accountCheckRange - 1
    /\ ~w.aExh /\ AccRows(ctx.acc) = {accountCheckRange}
    /\ Len(w.aQ) = accountCheckRange

\* a step in which proving or reconciling a segment ends the loop
SegmentExit == w.pc \in {"accRange", "stoRange"} /\ w'.pc = "errWait"

\* C22 (Prover error policy): a segment ends the loop from the prover only
\* for an iterated key below prefix||origin or for a trie that cannot be
\* opened (the reconciler may add a trie iteration failure); in particular a
\* stack trie that cannot be built from the collected rows does not end the
\* loop, the segment is reconciled by trie iteration instead.
ProverErrorPolicy ==
    [][SegmentExit => cause' \in {"badpos", "missing", "trieIter"}]_vars

\* the queue q hands over exactly the collected keys, in order, each with
\* its collected value and with write = false and delete = false
HandsCollected(q, keys, kv) ==
    /\ Len(q) = Len(keys)
    /\ \A i \in 1..Len(keys) :
          /\ q[i].key = keys[i] /\ q[i].val = kv[keys[i]]
          /\ ~q[i].write /\ ~q[i].del
\* nothing is left after the segment: no snapshot row and no trie leaf past
\* the last collected key (from lo on when nothing was collected)
NothingPast(last, lo, rows, leaves) ==
    LET next == IF last = NoKey THEN lo ELSE last + 1
    IN  {k \in rows \cup leaves : k >= next} = {}

\* C23 (Valid segment): when the proof result is valid, the reconciler hands
\* every collected key with its value to the callback, in order, with
\* write = false and delete = false, does not iterate the trie, batches
\* nothing itself, and returns last = the last collected key (nil when none)
\* and exhausted = not diskMore and not trieMore, which is the case exactly
\* when neither a snapshot row nor a trie leaf lies past the segment; the
\* callbacks of such a segment batch no write or delete for its keys.
ValidSegment ==
    [][/\ w.pc = "accRange" /\ w'.pc = "accCb" /\ AccProof.valid =>
            /\ HandsCollected(w'.aQ, AccCollect.keys, AccKv)
            /\ ~w'.aInv /\ w'.aTail = 0 /\ ctx'.batch = ctx.batch
            /\ w'.aLast = LastOf(AccCollect.keys)
            /\ w'.aExh = (~AccProof.diskMore /\ ~AccProof.trieMore)
            /\ w'.aExh = NothingPast(w'.aLast, FromOf(w.aOrigin),
                                     AccWindow(0, MaxKey), DOMAIN AccLeaves)
       /\ w.pc = "stoRange" /\ w'.pc = "stoCb" /\ StoProof.valid =>
            /\ HandsCollected(w'.sQ, StoCollect.keys, StoKv)
            /\ ~w'.sInv /\ w'.sTail = 0 /\ ctx'.batch = ctx.batch
            /\ w'.sLast = LastOf(StoCollect.keys)
            /\ w'.sExh = (~StoProof.diskMore /\ ~StoProof.trieMore)
            /\ w'.sExh = NothingPast(w'.sLast, FromOf(w.sOrigin),
                                     StoWindow(0, MaxSlot), DOMAIN StoLeaves(w.aroot))
       /\ OnAccountStep /\ ~w.aInv =>
            ctx'.batch.acc = ctx.batch.acc /\ w'.pc # "errWait"
       /\ OnStorageStep /\ ~w.sInv => ctx'.batch = ctx.batch]_vars

\* the first slot of a two-slot contract was proven valid by a chunked
\* segment: one untouched element queued, the segment not exhausted
ValidSegmentWitness ==
    /\ w.pc = "stoCb" /\ ~w.sInv /\ w.sOrigin = NoKey /\ w.sLast = 0
    /\ Len(w.sQ) = 1 /\ NoEdit(w.sQ) /\ ~w.sExh

\* the trie keys of the proven window: from lo up to last, or to the end
\* when nothing was collected
TrieWindow(leaves, lo, last) ==
    {j \in leaves : j >= lo /\ (last = NoKey \/ j <= last)}
\* the queue q is the merge of the collected snapshot keys K with the trie
\* keys T of the window: one element per key of the union, ascending;
\* delete for a key only in K, untouched for a key in both with equal
\* values, update for a key in both with different values, create for a key
\* only in T; the value handed is the trie's (nil for a delete)
Merged(q, keys, kv, leaf, T, nilVal) ==
    LET K == SeqSet(keys)
    IN  /\ Len(q) = Cardinality(K \cup T)
        /\ \A i \in 1..(Len(q) - 1) : q[i].key < q[i + 1].key
        /\ {q[i].key : i \in 1..Len(q)} = K \cup T
        /\ \A i \in 1..Len(q) :
              LET k == q[i].key
              IN  IF k \notin T
                  THEN q[i].del /\ ~q[i].write /\ q[i].val = nilVal
                  ELSE /\ ~q[i].del /\ q[i].val = leaf[k]
                       /\ q[i].write = (k \notin K \/ kv[k] # leaf[k])
\* the rows of the window once the edits of q are applied to the collected
\* rows are the trie's leaves
Healed(q, keys, kv, leaf, T) ==
    LET K == SeqSet(keys)
        after(i) == IF q[i].del THEN "gone"
                    ELSE IF q[i].write THEN "trie"
                    ELSE "kept"
    IN  \A i \in 1..Len(q) :
          LET k == q[i].key
          IN  CASE after(i) = "gone" -> k \notin T
                [] after(i) = "trie" -> k \in T
                [] OTHER -> k \in T /\ k \in K /\ kv[k] = leaf[k]

\* C24 (Two-cursor merge): an invalid segment hands the callback exactly one
\* element per key of the union of the collected snapshot keys and the trie
\* keys of the window, in strictly ascending order: delete (nil value) for a
\* key only in the snapshot, untouched for a key in both with equal values,
\* update with the trie value for a key in both with different values,
\* create with the trie value for a key only in the trie; the snapshot keys
\* left when the trie iterator ends are the deletes of the tail sweep; and
\* the edits turn the snapshot rows of the window into the trie's leaves.
TwoCursorMerge ==
    [][/\ w.pc = "accRange" /\ w'.pc = "accCb" /\ ~AccProof.valid =>
            LET T == TrieWindow(DOMAIN AccLeaves, FromOf(w.aOrigin), LastOf(AccCollect.keys))
            IN  /\ w'.aInv
                /\ Merged(w'.aQ, AccCollect.keys, AccKv, AccLeaves, T, NoAcc)
                /\ Healed(w'.aQ, AccCollect.keys, AccKv, AccLeaves, T)
                /\ w'.aTail <= Len(w'.aQ)
                /\ \A i \in (Len(w'.aQ) - w'.aTail + 1)..Len(w'.aQ) : w'.aQ[i].del
       /\ w.pc = "stoRange" /\ w'.pc = "stoCb" /\ ~StoProof.valid =>
            LET T == TrieWindow(DOMAIN StoLeaves(w.aroot), FromOf(w.sOrigin),
                                LastOf(StoCollect.keys))
            IN  /\ w'.sInv
                /\ Merged(w'.sQ, StoCollect.keys, StoKv, StoLeaves(w.aroot), T, 0)
                /\ Healed(w'.sQ, StoCollect.keys, StoKv, StoLeaves(w.aroot), T)
                /\ w'.sTail <= Len(w'.sQ)
                /\ \A i \in (Len(w'.sQ) - w'.sTail + 1)..Len(w'.sQ) : w'.sQ[i].del]_vars

\* one account segment reconciled by trie iteration: a stale snapshot key
\* deleted, a missing account created, a differing account updated
TwoCursorMergeWitness ==
    /\ w.pc = "accCb" /\ w.aInv /\ Len(w.aQ) = 3
    /\ w.aQ[1].del /\ w.aQ[1].key = 0
    /\ w.aQ[2].write /\ w.aQ[2].key = 1 /\ dbAcc[1].k = "none"
    /\ w.aQ[3].write /\ w.aQ[3].key = 2 /\ dbAcc[2].k # "none"

\* the outcome of an invalid segment with respect to its proven window.
\* last non-nil: no element beyond last, and the segment is exhausted
\* exactly when no trie leaf lies beyond last and the scan was not cut;
\* last nil: every trie leaf from lo on is created, and the segment is
\* exhausted.
WindowBound(q, exh, last, lo, leaves, diskMore) ==
    IF last # NoKey
    THEN /\ \A i \in 1..Len(q) : q[i].key <= last
         /\ exh = (~diskMore /\ {j \in leaves : j > last} = {})
         /\ {j \in leaves : j > last} # {} => ~exh
    ELSE /\ {q[i].key : i \in 1..Len(q)} = {j \in leaves : j >= lo}
         /\ \A i \in 1..Len(q) : q[i].write /\ ~q[i].del
         /\ exh

\* C25 (Proven window bound): in an invalid segment with a non-nil last key
\* no element is handed to the callback for a trie key greater than last,
\* and a trie key beyond last makes the segment report not exhausted; with
\* last nil the trie is walked from the origin to its end in that one
\* segment, every trie key is created, and the segment reports exhausted.
ProvenWindowBound ==
    [][/\ w.pc = "accRange" /\ w'.pc = "accCb" /\ ~AccProof.valid =>
            WindowBound(w'.aQ, w'.aExh, LastOf(AccCollect.keys), FromOf(w.aOrigin),
                        DOMAIN AccLeaves, AccCollect.diskMore)
       /\ w.pc = "stoRange" /\ w'.pc = "stoCb" /\ ~StoProof.valid =>
            WindowBound(w'.sQ, w'.sExh, LastOf(StoCollect.keys), FromOf(w.sOrigin),
                        DOMAIN StoLeaves(w.aroot), StoCollect.diskMore)]_vars

\* the snapshot held account 0 alone while the trie also holds the last
\* account: the segment stopped at the window's end and is not exhausted
ProvenWindowBoundWitness ==
    /\ w.pc = "accCb" /\ w.aInv /\ w.aLast = 0 /\ ~w.aExh
    /\ Len(w.aQ) = 1 /\ w.aQ[1].key = 0
    /\ trie[MaxKey] # NoKey /\ AccRows(ctx.acc) = {}

\* byte strings of up to two bytes, and their big-endian value
KeyStrings(top) == UNION {[1..n -> 0..top] : n \in 0..2}
RECURSIVE BigEndian(_, _)
BigEndian(key, top) ==
    IF key = <<>> THEN 0
    ELSE BigEndian(SubSeq(key, 1, Len(key) - 1), top) * (top + 1) + key[Len(key)]
\* increaseKey is the big-endian successor, of the same length, and nil
\* exactly for the empty key and for the key of all-maximal bytes
IsSuccessor(top) ==
    \A key \in KeyStrings(top) :
        LET next == increaseKeyBytes(key, top)
            allMax == \A i \in 1..Len(key) : key[i] = top
        IN  /\ (next = Nil) = (key = <<>> \/ allMax)
            /\ next # Nil =>
                  /\ Len(next) = Len(key)
                  /\ BigEndian(next, top) = BigEndian(key, top) + 1
\* the one-part hashes of the passes are increased the same way
NextOrigin(last, top) ==
    IF last = NoKey THEN NoKey
    ELSE LET next == increaseKeyBytes(<<last>>, top)
         IN  IF next = Nil THEN NoKey ELSE next[1]
\* a step of a pass's loop after a segment: it leaves the loop exactly when
\* the segment was exhausted or the origin overflows, and otherwise goes on
\* with the successor of last as an origin above the previous one
Chained(exh, last, top, origin, origin2, left, again) ==
    /\ IsSuccessor(top)
    /\ left = (exh \/ NextOrigin(last, top) = NoKey)
    /\ ~left => /\ again
                /\ origin2 = NextOrigin(last, top)
                /\ origin2 = last + 1 /\ origin2 > origin

\* C26 (Segment chaining terminates): in the account pass and in every
\* storage pass the next segment's origin is increaseKey(last), the
\* big-endian successor of last (nil exactly for an all-maximal or empty
\* key); the origins strictly increase; unless an error ends it, the loop is
\* left exactly when the segment reported exhausted or the origin overflowed;
\* and without aborts and failures every step brings the worker strictly
\* further, so each pass is left after finitely many steps.
SegmentChaining ==
    [][/\ w.pc = "accCb" /\ w.aQ = <<>> /\ w' # w /\ w'.pc # "errWait" =>
            Chained(w.aExh, w.aLast, MaxKey, w.aOrigin, w'.aOrigin,
                    w'.pc = "finalCommit", w'.pc = "accRange")
       /\ w.pc = "stoCb" /\ w.sQ = <<>> /\ w' # w /\ w'.pc # "errWait" =>
            Chained(w.sExh, w.sLast, MaxSlot, w.sOrigin, w'.sOrigin,
                    w'.pc = "accCb", w'.pc = "stoRange")
       /\ w'.pc \in {"accRange", "stoRange"} /\ w' # w =>
            w.pc \in {"start", "accCb", "accPost", "stoCb", "publish"}
       /\ LexLess(Rank, Rank')]_vars

\* the account pass is in its second segment and the storage pass of the
\* last account went on to its second segment
SegmentChainingWitness ==
    /\ w.pc = "stoRange" /\ w.sOrigin = MaxSlot /\ w.sLast = MaxSlot - 1
    /\ w.aOrigin = MaxKey /\ w.aLast = MaxKey

\* the worker's bootstrap step: generate() passes from its entry to the
\* first account segment
BootstrapStep == w.pc = "start" /\ w'.pc = "accRange"

\* the worker has touched nothing yet: no row collected, the iterators as
\* the context opened them, the batch empty, no callback counted
Untried ==
    /\ w = [NoWorker EXCEPT !.pc = "start", !.from = w.from]
    /\ ctx = newGeneratorContext(progress)

\* C27 (Bootstrap): a worker that starts with an empty stored marker
\* commits the snapshot-root record and the initial journal record
\* (done = false, marker empty, the current counters) in one step, before
\* any row is read and before any callback; a worker that starts with a
\* non-empty marker writes neither record at start.
BootstrapRecords ==
    [][/\ BootstrapStep =>
            /\ Untried
            /\ UNCHANGED <<dbAcc, dbSto, ctx, stats, progress>>
            /\ IF MLen(progress) = 0
               THEN /\ dbRoot'
                    /\ dbJrn' = [set |-> TRUE, done |-> FALSE, marker |-> <<>>,
                                 accounts |-> stats.accounts,
                                 slots |-> stats.slots]
               ELSE UNCHANGED <<dbRoot, dbJrn>>
       /\ w.pc = "start" /\ ~BootstrapStep => UNCHANGED <<dbRoot, dbJrn>>]_vars

\* the account in hand is the first one of this worker that the trie holds
\* (no earlier callback of the worker was a non-delete one), and it is the
\* account of the two-segment marker the worker resumed from
FirstLive(a) == MLen(w.from) = 2 /\ a = w.from[1]
\* the step of onAccount that enters the storage pass
StoragePassStep == w.pc = "accPost" /\ w'.pc = "stoRange"

\* C28 (Resume-marker duality): after a resume from a two-segment marker
\* A||S, when the first non-deleted account handed to the callback is A, its
\* checkpoint hands checkAndFlush the marker A||S and its storage pass starts
\* at origin S; for every other account, and for A after a resume from the
\* single segment A, the checkpoint marker is the account key alone and the
\* storage pass starts at the beginning; once a non-deleted account has been
\* processed the resume marker is unset.
MarkerDuality ==
    /\ [][/\ OnAccountStep /\ ~Handed.del /\ w'.pc = "commit" =>
                w'.cur = IF w.acct = NoKey /\ FirstLive(Handed.key)
                         THEN w.from ELSE <<Handed.key>>
          /\ OnAccountStep /\ ~Handed.del =>
                w'.accMarker = w.accMarker /\ progress' = progress
          /\ StoragePassStep =>
                w'.sOrigin = IF w.accMarker # NoKey /\ FirstLive(w.acct)
                             THEN w.from[2] ELSE NoKey]_vars
    /\ [](w.pc \in {"accCb", "accRange", "finalCommit"} /\ w.acct # NoKey
            => w.accMarker = NoKey)
    /\ [](w.pc \in {"accPost", "stoRange", "stoCb"} /\ w.accMarker # NoKey /\ w.acct = w.accMarker
            => progress = w.from)
\* the interrupted account passed its checkpoint with the resume marker still
\* set, and its storage pass goes on from the slot of the marker
MarkerDualityWitness ==
    /\ w.pc = "stoRange" /\ MLen(w.from) = 2 /\ w.acct = w.from[1]
    /\ w.sOrigin = w.from[2] /\ w.accMarker = w.from[1]

\* the account in hand is the one in progress when the run this worker
\* resumed was interrupted: the account part of the resume marker, met as
\* the first non-deleted account of the worker
InProgressAccount ==
    /\ w.acct = NoKey /\ MLen(w.from) > 0 /\ Handed.key = w.from[1]
\* what a non-delete account callback does with the row and the counter
AccountWritten ==
    /\ ctx'.batch.acc = [ctx.batch.acc EXCEPT ![Handed.key] = SlimAcc(Handed.val.root)]
    /\ stats'.accounts = stats.accounts + 1
AccountRecovered ==
    /\ ctx'.batch.acc = ctx.batch.acc
    /\ stats'.accounts = stats.accounts + 1
AccountSkipped ==
    /\ ctx'.batch.acc = ctx.batch.acc
    /\ stats'.accounts = stats.accounts

\* C29 as the spec states it: every non-delete account callback, the one of
\* the account equal to the resume marker included, writes the compact row
\* if the element is flagged written, writes no account row if it is
\* untouched, and adds one to the accounts counter
AccountEffectEvery ==
    [][OnAccountStep /\ ~Handed.del =>
          IF Handed.write THEN AccountWritten ELSE AccountRecovered]_vars

\* C29 (Account callback effect), as the code has it: a non-delete account
\* callback writes the compact row if the element is flagged written, writes
\* no account row if it is untouched, and adds one to the accounts counter
\* in both cases, except for the account in progress at the interruption
\* (the account part of the resume marker): for that account no row is
\* written and the counter is unchanged, whatever the flag.
AccountEffect ==
    [][OnAccountStep /\ ~Handed.del =>
          IF InProgressAccount THEN AccountSkipped
          ELSE IF Handed.write THEN AccountWritten ELSE AccountRecovered]_vars
\* a resumed worker has passed the callback of the interrupted account: the
\* batch holds no write for it and the counter is the journalled one
AccountEffectWitness ==
    /\ w.pc = "accPost" /\ MLen(w.from) > 0 /\ w.acct = w.from[1]
    /\ w.accMarker = w.acct /\ ctx.batch.acc[w.acct] = NoOp
    /\ stats.accounts = dbJrn.accounts /\ stats.accounts > 0

\* the step that closes the done channel
CloseDoneStep == ~done /\ done'

\* C30 (Done-signal implies completed): whenever the done channel is closed
\* the in-memory marker is nil (completed() is true) and the committed
\* journal record has done = true; the channel is closed only by a worker
\* whose final commit succeeded and which has cleared the marker, never by
\* one whose final commit failed or whose loop ended on an error or an
\* abort.
DoneImpliesCompleted ==
    /\ [](done => completed /\ dbJrn.set /\ dbJrn.done /\ dbJrn.marker = Nil)
    /\ [][/\ CloseDoneStep => w.pc = "closeDone" /\ w'.pc = "waitDone"
          /\ w'.pc = "closeDone" /\ w.pc # "closeDone" => w.pc = "clearMarker"
          /\ w'.pc = "clearMarker" /\ w.pc # "clearMarker" =>
                w.pc = "finalCommit" /\ dbJrn'.done /\ faults' = faults
          /\ w.pc \in {"errWait", "closeAbort", "exited"} => done' = done]_vars

\* C31 (Completion is sticky): once completed() is true it stays true over
\* every later step of run(), stop() and the workers they start: from then
\* on no step publishes a non-nil marker and no step commits a journal
\* record with done = false.
CompletionSticky ==
    [][completed =>
          /\ completed'
          /\ dbJrn' # dbJrn => dbJrn'.done /\ dbJrn'.marker = Nil]_vars

\* C32 (The done channel is closed at most once): over every sequence of
\* run() and stop() calls, a run() after completion included, a worker that
\* reaches close(g.done) finds the channel open, and the channel, once
\* closed, stays closed.
DoneClosedOnce ==
    /\ [](w.pc = "closeDone" => ~done)
    /\ [][done => done']_vars

\* two returned slices share a byte
Overlap(x, y) == x.page = y.page /\ x.lo < y.hi /\ y.lo < x.hi

\* C33 (Arena byte allocation is safe): over every sequence of NewBytes(n)
\* calls with 0 <= n <= arenaPageSize and Reset calls, no call indexes a page
\* that was not acquired or an offset outside the page, every slice
\* returned has exactly n bytes inside one acquired page, and the slices
\* returned since the arena was created or last Reset are pairwise disjoint.
ArenaSafe ==
    /\ ~arena.panic
    /\ \A x \in arena.live :
          /\ x.page >= 0 /\ x.page < arena.bytes
          /\ 0 <= x.lo /\ x.hi <= arenaPageSize /\ x.hi - x.lo = x.len
    /\ \A x, y \in arena.live : x # y => ~Overlap(x, y)
====
